---- MODULE Spec2Model ----
(***************************************************************************)
(* A model of the CogStack annotations ingester:                           *)
(*   ingester/annotations_indexer.py  AnnotationsIndexer and               *)
(*                                    BatchAnnotationsIndexer              *)
(*   ingester/nlp_service.py          NlpService.query                     *)
(*   ingester/es_common.py            ElasticIndexer, ElasticRangedIndexer *)
(*                                                                         *)
(* Python values are modelled as follows.  A dict is a function whose      *)
(* domain is a set of strings ({} is <<>>), a str is a string, an int an   *)
(* integer.  None is the record NoneValue when it stands where a dict may  *)
(* stand; a value that is either None or a str (the text field of a source *)
(* document) is the tuple <<>> for None and <<s>> for the str s.  A date   *)
(* string in python_date_format '%Y-%m-%d' is the tuple <<y, m, d>>.       *)
(***************************************************************************)
EXTENDS Integers, Sequences, FiniteSets, TLC

VARIABLES
    annotation_indexer_config, \* AnnotationIndexerConfig and the NlpService settings
    batch_date_start,          \* argument of index_range
    batch_date_end,            \* argument of index_range
    sched_pc,                  \* position of index_range
    seg_batch_date_start,      \* local of index_range
    seg_batch_date_end,        \* local of index_range
    continue_read,             \* local of index_range
    doc_ids,                   \* ids resolved for the current window
    windows,                   \* history: the windows generated so far
    executors,                 \* history: max_workers of every ThreadPoolExecutor created
    task,                      \* position of _process_document per document id
    nlp_response,              \* local of _process_document per document id
    source,                    \* the source index: id -> _source
    sink,                      \* the sink indices: set of stored records
    sink_searchable,           \* the sink records visible to search and count
    auto_id,                   \* ids generated by the store for index calls without id
    nlp_calls,                 \* history: calls of NlpService.query per document id
    emitted,                   \* history: write operations emitted per document id
    pass_results,              \* history: responses obtained per document id
    endpoints_failed,          \* history: every endpoint returned non-200 in the last query
    abandoned,                 \* history: the last pass of the id ended by an error
    faults,                    \* history: the requests the stores have failed so far
    query_pc,                  \* position of NlpService.query
    query_text,                \* argument text of NlpService.query
    url_index,                 \* position in url_endpoints of the for loop
    number_of_retries,         \* local of NlpService.query
    request_status,            \* status code of the last request
    request_responses,         \* local of NlpService.query
    final_response,            \* value returned by NlpService.query
    endpoint_bodies,           \* history: the 200 body of every endpoint, {} if it had none
    posts,                     \* history: the POSTs sent, in order
    dedup_pc,                  \* position of remove_duplicate_records
    list_of_dicts,             \* argument of remove_duplicate_records
    list_of_strings,           \* local of remove_duplicate_records
    deduplicated,              \* value returned by remove_duplicate_records
    dedup_calls,               \* history: the results of the calls that returned earlier
    bulk_pc,                   \* position of index_docs_bulk_gen
    actions_generator,         \* its argument: the stream of operations
    submitted,                 \* the operations of the stream sent to the store so far
    failed_docs,               \* local of index_docs_bulk_gen
    bulk_exception,            \* the exception raised and not yet caught
    bulk_log,                  \* history: the lines index_docs_bulk_gen has logged
    mappings,                  \* the source and the sink index: existence, annotations field
    mapping_requests           \* history: the requests index_range has made on the indices

schedVars == <<batch_date_start, batch_date_end, sched_pc, seg_batch_date_start,
               seg_batch_date_end, continue_read, doc_ids, windows, executors>>
docVars   == <<task, nlp_response, source, sink, sink_searchable, auto_id,
               nlp_calls, emitted, pass_results, endpoints_failed, abandoned, faults>>
queryVars == <<query_pc, query_text, url_index, number_of_retries, request_status,
               request_responses, final_response, endpoint_bodies, posts>>
dedupVars == <<dedup_pc, list_of_dicts, list_of_strings, deduplicated, dedup_calls>>
bulkVars  == <<bulk_pc, actions_generator, submitted, failed_docs, bulk_exception, bulk_log>>
pureVars  == <<dedupVars, bulkVars>>
mappingVars == <<mappings, mapping_requests>>
pipelineVars == <<annotation_indexer_config, schedVars, docVars, queryVars, mappingVars>>
vars      == <<pipelineVars, pureVars>>

-----------------------------------------------------------------------------
(* Bounds of the model *)

\* the batch dates range over FirstDay .. FirstDay + MaxDay
MaxDay == 3
\* the configured interval ranges over 0 .. MaxInterval
MaxInterval == 2
\* index_range is followed for at most MaxWindows windows
MaxWindows == 5
\* an endpoint list has at most MaxEndpoints urls
MaxEndpoints == 2
\* the pool has at most MaxThreads workers
MaxThreads == 2
\* the stores fail at most MaxFaults requests of a run
MaxFaults == 1

\* remove_duplicate_records is given lists of at most MaxRecords records
MaxRecords == 2

\* index_docs_bulk_gen is given streams of at most MaxChunks full chunks and one operation
MaxChunks == 2

-----------------------------------------------------------------------------
(* Python values *)

NoneValue == [None |-> TRUE]

Has(d, k) == k \in DOMAIN d

\* d1.update(d2) / {**d1, **d2}: the keys of d2 override
Update(d1, d2) == [k \in DOMAIN d1 \cup DOMAIN d2 |-> IF k \in DOMAIN d2 THEN d2[k] ELSE d1[k]]

-----------------------------------------------------------------------------
(* datetime.strptime / strftime with python_date_format '%Y-%m-%d' and    *)
(* timedelta(days=n), over the years 2020 and 2021.                       *)

IsLeap(y) == (y % 4 = 0 /\ y % 100 # 0) \/ y % 400 = 0

DaysInMonth(y, m) ==
    IF m = 2 THEN (IF IsLeap(y) THEN 29 ELSE 28)
    ELSE IF m \in {4, 6, 9, 11} THEN 30 ELSE 31

DaysInYear(y) == IF IsLeap(y) THEN 366 ELSE 365

RECURSIVE DaysBeforeMonth(_, _)
DaysBeforeMonth(y, m) == IF m = 1 THEN 0 ELSE DaysBeforeMonth(y, m - 1) + DaysInMonth(y, m - 1)

\* the proleptic ordinal of a date string, counted from 2020-01-01 = 0
strptime(s) ==
    (IF s[1] = 2020 THEN 0 ELSE DaysInYear(2020)) + DaysBeforeMonth(s[1], s[2]) + s[3] - 1

RECURSIVE MonthOf(_, _, _)
MonthOf(y, m, n) == IF n < DaysInMonth(y, m) THEN <<y, m, n + 1>> ELSE MonthOf(y, m + 1, n - DaysInMonth(y, m))

\* the date string of an ordinal
strftime(n) ==
    IF n < DaysInYear(2020) THEN MonthOf(2020, 1, n) ELSE MonthOf(2021, 1, n - DaysInYear(2020))

\* the first date the batch dates are drawn from
FirstDay == strptime(<<2020, 2, 27>>)

BatchDates == {strftime(FirstDay + n) : n \in 0..MaxDay}

-----------------------------------------------------------------------------
(* NlpService: ingester/nlp_service.py *)

\* self.max_number_of_retries, set in __init__
max_number_of_retries == 3

Urls == <<"http://nlp-a", "http://nlp-b", "http://nlp-c">>

\* the status of a request that got no response: requests.post raised a connection error
ConnectionError == 0

\* the outcomes of the last request to an endpoint
Statuses == {200, 500, ConnectionError}

\* the values of the text field of a source document that has one: None or a str
TextValues == { <<>>, <<"flu">>, <<"flu and cough">> }

\* a text every endpoint always answers, with the same entity
StableText == "cough and flu"

\* the outcomes of a request for text
StatusesOf(text) == IF text = StableText THEN {200} ELSE Statuses

\* entities as the structured service returns them
EntityDisease == [id |-> 1, type |-> "Disease"]
EntityPlain   == [id |-> 2]

\* the last one holds the same record under two keys
EntityMaps == { <<>>, ("0" :> EntityDisease), ("0" :> EntityDisease) @@ ("1" :> EntityPlain),
                ("0" :> EntityDisease) @@ ("1" :> EntityDisease) }

\* 200 bodies of a structured (Shape A) endpoint
StructuredBodies ==
    { [result |-> [annotations |-> [entities |-> m], timestamp |-> "ts"]] : m \in EntityMaps }
    \cup { [result |-> [annotations |-> [entities |-> ("0" :> EntityDisease)
                                                        @@ ("1" :> EntityPlain)],
                        timestamp |-> "ts"],
            medcat_info |-> [model |-> "medcat-1", version |-> "1.0"]],
           [result |-> [annotations |-> NoneValue, timestamp |-> "ts"],
            medcat_info |-> [model |-> "medcat-1", version |-> "1.0"]],
           [result |-> [annotations |-> NoneValue, timestamp |-> "ts"]],
           [result |-> [timestamp |-> "ts"]],
           [status |-> "busy"],
           <<>> }

\* 200 bodies of a flat-entities (Shape B) endpoint that was sent text
GateBodies(text) ==
    { [entities |-> ("Disease" :> << [indices |-> <<0, 3>>] >>), text |-> text],
      [entities |-> ("Disease" :> << [indices |-> <<0, 3>>] >>)
                    @@ ("Drug" :> << [indices |-> <<4, 7>>] >>), text |-> text],
      [entities |-> ("Disease" :> << [indices |-> <<0, 3>>] >>)],
      [entities |-> <<>>, text |-> text],
      [entities |-> NoneValue, text |-> text],
      <<>> }

\* the 200 bodies an endpoint may answer a request for text with
Bodies(mode, text) ==
    IF text = StableText
    THEN IF mode = "gate-nlp"
         THEN { [entities |-> ("Disease" :> << [indices |-> <<10, 13>>] >>), text |-> text] }
         ELSE { [result |-> [annotations |-> [entities |-> ("0" :> EntityDisease)],
                             timestamp |-> "ts"]] }
    ELSE IF mode = "gate-nlp" THEN GateBodies(text) ELSE StructuredBodies

\* the order in which the keys of an "entities" object of a body are iterated
EntityTypeOrder == <<"Disease", "Drug">>

\* bool(current_request) of a parsed JSON object
Truthy(d) == DOMAIN d # {}

\* Collect without the test of the status code
Collect_IgnoreStatus(responses, mode, url, status, body) ==
    LET current_request == IF mode = "gate-nlp" /\ Truthy(body)
                           THEN Update(body, [pipeline_url |-> url])
                           ELSE body
    IN  IF Truthy(current_request) THEN Append(responses, current_request) ELSE responses

\* lines 82-92: what one endpoint adds to request_responses once its requests are over
Collect(responses, mode, url, status, body) ==
    IF status = 200
    THEN LET current_request == IF mode = "gate-nlp" /\ Truthy(body)
                                THEN Update(body, [pipeline_url |-> url])
                                ELSE body
         IN  IF Truthy(current_request) THEN Append(responses, current_request) ELSE responses
    ELSE Append(responses, <<>>)

\* s[a:b] of a str, for 0 <= a
Slice(s, a, b) == SubSeq(s, a + 1, IF b < Len(s) THEN b ELSE Len(s))

\* MedcatMerge that copies medcat_info and leaves the timestamp out
MedcatMerge_NoTimestamp(response) ==
    IF Has(response, "medcat_info") /\ Has(response.result, "annotations")
    THEN LET ents == response.result.annotations.entities
             upd  == [k \in DOMAIN ents |-> Update(ents[k], response.medcat_info)]
         IN  [response EXCEPT !.result.annotations.entities = upd]
    ELSE response

\* lines 105-108: medcat_info and the timestamp are copied into every entity
MedcatMerge(response) ==
    IF Has(response, "medcat_info") /\ Has(response.result, "annotations")
    THEN LET ents == response.result.annotations.entities
             upd  == [k \in DOMAIN ents |->
                        Update(Update(ents[k], response.medcat_info),
                               [timestamp |-> response.result.timestamp])]
         IN  [response EXCEPT !.result.annotations.entities = upd]
    ELSE response

\* FormatList that numbers the entities of every list from zero
RECURSIVE FormatList_PerList(_, _, _, _, _, _)
FormatList_PerList(ents, i, entity_type, response, ts, st) ==
    IF i > Len(ents) THEN st
    ELSE LET annotation_indices == ents[i].indices
             ent == Update(ents[i],
                      [type |-> entity_type, id |-> i - 1,
                       pipeline_url |-> response.pipeline_url, timestamp |-> ts,
                       source_value |-> Slice(response.text, annotation_indices[1],
                                              annotation_indices[2])])
         IN  FormatList_PerList(ents, i + 1, entity_type, response, ts,
                        [formatted_result |-> Update(st.formatted_result,
                                                     (ToString(i - 1) :> ent)),
                         annotation_index |-> st.annotation_index + 1])

\* lines 116-124 for one entity type: the entities of the list get consecutive ids
RECURSIVE FormatList(_, _, _, _, _, _)
FormatList(ents, i, entity_type, response, ts, st) ==
    IF i > Len(ents) THEN st
    ELSE LET annotation_indices == ents[i].indices
             ent == Update(ents[i],
                      [type |-> entity_type, id |-> st.annotation_index,
                       pipeline_url |-> response.pipeline_url, timestamp |-> ts,
                       source_value |-> Slice(response.text, annotation_indices[1],
                                              annotation_indices[2])])
         IN  FormatList(ents, i + 1, entity_type, response, ts,
                        [formatted_result |-> st.formatted_result
                                                @@ (ToString(st.annotation_index) :> ent),
                         annotation_index |-> st.annotation_index + 1])

\* lines 116-125: all entity types of one response
RECURSIVE FormatTypes(_, _, _, _)
FormatTypes(t, response, ts, st) ==
    IF t > Len(EntityTypeOrder) THEN st
    ELSE IF Has(response.entities, EntityTypeOrder[t])
         THEN FormatTypes(t + 1, response, ts,
                 FormatList(response.entities[EntityTypeOrder[t]], 1, EntityTypeOrder[t],
                            response, ts, st))
         ELSE FormatTypes(t + 1, response, ts, st)

\* the keys of a body whose value is a dict unless it is None
DictKeys == {"entities", "result", "medcat_info"}

\* type(v) is dict, for the value v of key k
IsDict(k, v) == k \in DictKeys /\ v # NoneValue

\* lines 127-132: the keys of the response are merged into final_response
MergeInto(final, response) ==
    [k \in DOMAIN final \cup (DOMAIN response \ {"pipeline_url"}) |->
        IF k \in DOMAIN final
        THEN IF k \in DOMAIN response /\ IsDict(k, response[k])
             THEN Update(final[k], response[k])
             ELSE final[k]
        ELSE response[k]]

\* line 130 raises when final_response[k] is not a dict
MergeRaises(final, response) ==
    \E k \in DOMAIN final \cap DOMAIN response : IsDict(k, response[k]) /\ ~IsDict(k, final[k])

\* lines 105-108 raise when the annotations of the result have no entities
MedcatRaises(response) ==
    Has(response, "result") /\ Has(response, "medcat_info")
      /\ Has(response.result, "annotations")
      /\ (response.result.annotations = NoneValue
          \/ ~Has(response.result.annotations, "entities"))

\* line 121 raises when a response that has an entity to format has no "text"
FormatRaises(response, mode) ==
    /\ mode = "gate-nlp"
    /\ Has(response, "entities")
    /\ response.entities # NoneValue
    /\ ~Has(response, "text")
    /\ \E t \in DOMAIN response.entities : Len(response.entities[t]) > 0

\* lines 100-132: one iteration of the loop over request_responses;
\* st is [final_response, annotation_index, raised]
NormalizeOne(st, response0, mode, ts) ==
    IF st.raised \/ MedcatRaises(response0) \/ FormatRaises(response0, mode)
    THEN [st EXCEPT !.raised = TRUE]
    ELSE
    LET response1 == IF Has(response0, "result") THEN MedcatMerge(response0) ELSE response0
        final1    == IF Has(response0, "result") THEN response1 ELSE st.final_response
    IN  IF mode # "gate-nlp"
        THEN [st EXCEPT !.final_response = final1]
        ELSE LET start == [formatted_result |-> <<>>, annotation_index |-> st.annotation_index]
                 fmt == IF Has(response1, "entities") /\ response1.entities # NoneValue
                        THEN FormatTypes(1, response1, ts, start)
                        ELSE start
                 response2 == IF Has(response1, "entities") /\ response1.entities # NoneValue
                              THEN [response1 EXCEPT !.entities = fmt.formatted_result]
                              ELSE response1
                 final2 == IF Has(response0, "result") THEN response2 ELSE final1
             IN  IF MergeRaises(final2, response2)
                 THEN [st EXCEPT !.raised = TRUE]
                 ELSE [final_response |-> MergeInto(final2, response2),
                       annotation_index |-> fmt.annotation_index,
                       raised |-> FALSE]

RECURSIVE NormalizeFrom(_, _, _, _, _)
NormalizeFrom(responses, i, st, mode, ts) ==
    IF i > Len(responses) THEN st
    ELSE NormalizeFrom(responses, i + 1, NormalizeOne(st, responses[i], mode, ts), mode, ts)

\* lines 96-136: the value query returns for the collected responses, None (line 135)
\* when the loop raised
Normalize(responses, mode, ts) ==
    LET st == NormalizeFrom(responses, 1,
                 [final_response |-> <<>>, annotation_index |-> 0, raised |-> FALSE], mode, ts)
    IN  IF st.raised THEN NoneValue ELSE st.final_response

-----------------------------------------------------------------------------
(* ElasticIndexer and ElasticRangedIndexer: ingester/es_common.py *)

BULK_CHUNK_SIZE == 5000

source_index_name == "source"
sink_index_name   == "sink"

\* str.lower() on the index suffixes that occur
Lower(str) ==
    CASE str = "sink-Disease" -> "sink-disease"
      [] str = "sink-Drug"    -> "sink-drug"
      [] str = "Medcat-Nested-Object" -> "medcat-nested-object"
      [] OTHER                -> str

\* _format_index_name; the names that occur contain none of the replaced characters
\* and neither start nor end with a stripped one
_format_index_name(index_name) == Lower(index_name)

\* get_index_name; a search over the suffix "*" is the pattern <<index_name, "*">>
get_index_name(index_name, suffix, search_only) ==
    IF Len(suffix) > 0
    THEN IF search_only /\ suffix = "*"
         THEN <<index_name, "*">>
         ELSE <<_format_index_name(index_name \o "-" \o suffix)>>
    ELSE <<_format_index_name(index_name)>>

\* the indices of the sink a name or pattern of get_index_name resolves to
Resolves(name, index) ==
    IF Len(name) = 2
    THEN \E suffix \in {"disease", "drug"} : index = name[1] \o "-" \o suffix
    ELSE index = name[1]

\* doc_exists that counts every record that has the field, whatever its value
doc_exists_AnyValue(searchable, field, value, index_suffix) ==
    LET index_name == get_index_name(sink_index_name, index_suffix, TRUE)
    IN  \E r \in searchable :
           /\ Resolves(index_name, r._index)
           /\ (field = "_id" \/ Has(r._source, field))

\* doc_exists on the sink: a count query over what search sees
doc_exists(searchable, field, value, index_suffix) ==
    LET index_name == get_index_name(sink_index_name, index_suffix, TRUE)
    IN  \E r \in searchable :
           /\ Resolves(index_name, r._index)
           /\ IF field = "_id" THEN r._id = value
              ELSE Has(r._source, field) /\ r._source[field] = value

\* get_doc_ids_by_range_scan on the source: gte date_begin, lte date_end
get_doc_ids_by_range_scan(src, date_field, date_begin, date_end) ==
    { id \in DOMAIN src :
        /\ Has(src[id], date_field)
        /\ src[id][date_field] >= strptime(date_begin)
        /\ src[id][date_field] <= strptime(date_end) }

\* the id of an index operation that names none: id=None
NoId == ""

\* the store applies one operation; st is [store, auto_id].  index replaces the record of
\* the id, or adds a record under a generated id when the operation names none; update
\* changes the annotations of the record of the id and fails when there is none
ApplyOp(st, op) ==
    IF op._op_type = "index"
    THEN IF op._id = NoId
         THEN [store   |-> st.store \cup { [_index |-> op._index,
                                            _id |-> "auto-" \o ToString(st.auto_id),
                                            _source |-> op._source] },
               auto_id |-> st.auto_id + 1]
         ELSE [store   |-> { r \in st.store : ~(r._index = op._index /\ r._id = op._id) }
                             \cup { [_index |-> op._index, _id |-> op._id,
                                     _source |-> op._source] },
               auto_id |-> st.auto_id]
    ELSE [store   |-> { IF r._index = op._index /\ r._id = op._id
                        THEN [r EXCEPT !._source =
                                 Update(r._source, [annotations |-> op.annotations])]
                        ELSE r : r \in st.store },
          auto_id |-> st.auto_id]

\* the source index after the cluster that holds it has applied the operations: an update
\* addressed to the source index changes the annotations of the document of the id
RECURSIVE ApplyToSource(_, _)
ApplyToSource(src, ops) ==
    IF ops = <<>> THEN src
    ELSE LET op == Head(ops)
         IN  ApplyToSource(
                 IF /\ op._op_type = "update"
                    /\ op._index = get_index_name(source_index_name, "", FALSE)[1]
                    /\ op._id \in DOMAIN src
                 THEN [src EXCEPT ![op._id] = Update(@, [annotations |-> op.annotations])]
                 ELSE src,
                 Tail(ops))

RECURSIVE ApplyOps(_, _)
ApplyOps(st, ops) ==
    IF ops = <<>> THEN st ELSE ApplyOps(ApplyOp(st, Head(ops)), Tail(ops))

\* streaming_bulk over a generator: the operations yielded are sent chunk by chunk; when the
\* generator raises, the operations of the chunk being filled are never sent
SentOps(prepared) ==
    IF prepared.raised
    THEN SubSeq(prepared.ops, 1, (Len(prepared.ops) \div BULK_CHUNK_SIZE) * BULK_CHUNK_SIZE)
    ELSE prepared.ops

-----------------------------------------------------------------------------
(* AnnotationsIndexer: ingester/annotations_indexer.py *)

FIELD_ANN_PREFIX  == "nlp"
FIELD_META_PREFIX == "meta"
MIN_TEXT_LEN == 5

source_text_field       == "text"
source_docid_field      == "docid"
source_batch_date_field == "dates"
nlp_ann_id_field        == "id"

\* "%s.%s" % (prefix, field)
Prefixed(prefix, field) == prefix \o "." \o field

\* "%s" % v for the id of an entity, an int
Str(v) == ToString(v)

\* the order in which the keys of a canonical entity map are iterated: the keys are the
\* decimal strings from "0" on, and a body lists at most two entities per endpoint
EntityKeyOrder == [i \in 1..(2 * MaxEndpoints) |-> ToString(i - 1)]

KeysOf(entities) == SelectSeq(EntityKeyOrder, LAMBDA k : k \in DOMAIN entities)

\* lines 204-208: the persisted fields of the document, prefixed
MetaFields(cfg, document) ==
    LET fields == { f \in cfg.source_fields_to_persist : f \in DOMAIN document }
    IN  [k \in { Prefixed(FIELD_META_PREFIX, f) : f \in fields } |->
            document[CHOOSE f \in fields : Prefixed(FIELD_META_PREFIX, f) = k]]

\* lines 210-212: the fields of the entity, prefixed
NlpFields(entity) ==
    [k \in { Prefixed(FIELD_ANN_PREFIX, f) : f \in DOMAIN entity } |->
        entity[CHOOSE f \in DOMAIN entity : Prefixed(FIELD_ANN_PREFIX, f) = k]]

\* SeparateOp that leaves the id of the operation to the store
SeparateOp_NoId(cfg, entity, document) ==
    IF (Len(cfg.split_index_by_field) > 0 /\ ~Has(entity, cfg.split_index_by_field))
         \/ ~Has(entity, nlp_ann_id_field) \/ ~Has(document, source_docid_field)
    THEN [raised |-> TRUE]
    ELSE [raised  |-> FALSE,
          _id     |-> NoId,
          _op_type |-> "index",
          _index  |-> IF Len(cfg.split_index_by_field) > 0
                      THEN get_index_name(sink_index_name,
                                          entity[cfg.split_index_by_field], FALSE)[1]
                      ELSE get_index_name(sink_index_name, "", FALSE)[1],
          _source |-> Update(MetaFields(cfg, document), NlpFields(entity))]

\* lines 202-227 for one entity: the operation, or a KeyError
SeparateOp(cfg, entity, document) ==
    IF (Len(cfg.split_index_by_field) > 0 /\ ~Has(entity, cfg.split_index_by_field))
         \/ ~Has(entity, nlp_ann_id_field) \/ ~Has(document, source_docid_field)
    THEN [raised |-> TRUE]
    ELSE [raised  |-> FALSE,
          _id     |-> "doc-" \o document[source_docid_field] \o "-ann-"
                        \o Str(entity[nlp_ann_id_field]),
          _op_type |-> "index",
          _index  |-> IF Len(cfg.split_index_by_field) > 0
                      THEN get_index_name(sink_index_name,
                                          entity[cfg.split_index_by_field], FALSE)[1]
                      ELSE get_index_name(sink_index_name, "", FALSE)[1],
          _source |-> Update(MetaFields(cfg, document), NlpFields(entity))]

\* lines 201-227: the operations the generator yields in separate mode, until it raises
RECURSIVE PrepareSeparate(_, _, _, _)
PrepareSeparate(cfg, keys, entities, document) ==
    IF keys = <<>> THEN [ops |-> <<>>, raised |-> FALSE]
    ELSE LET op == SeparateOp(cfg, entities[Head(keys)], document)
         IN  IF op.raised THEN [ops |-> <<>>, raised |-> TRUE]
             ELSE LET rest == PrepareSeparate(cfg, Tail(keys), entities, document)
                  IN  [ops |-> <<[_id |-> op._id, _op_type |-> op._op_type,
                                  _index |-> op._index, _source |-> op._source]>> \o rest.ops,
                       raised |-> rest.raised]

\* annotations_entities.values() as a list
ValuesOf(entities) == [i \in 1..Len(KeysOf(entities)) |-> entities[KeysOf(entities)[i]]]

RECURSIVE SetToSeq(_)
SetToSeq(S) == IF S = {} THEN <<>> ELSE LET x == CHOOSE x \in S : TRUE IN <<x>> \o SetToSeq(S \ {x})

\* utils.remove_duplicate_records: json.dumps(d, sort_keys=True) does not depend on the order
\* of the fields, so two records have the same string iff they are the same function
remove_duplicate_records(dicts) ==
    SetToSeq({ dicts[i] : i \in 1..Len(dicts) })

\* PrepareSame that sends the new entities alone
PrepareSame_NewOnly(cfg, entities, document, src_doc_id) ==
    [ops |-> <<[_id |-> src_doc_id, _op_type |-> "update",
                annotations |-> ValuesOf(entities),
                _index |-> get_index_name(source_index_name, "", FALSE)[1]]>>,
     raised |-> FALSE]

\* lines 148-165: the generator in same-index mode
PrepareSame(cfg, entities, document, src_doc_id) ==
    LET refined_annotations ==
            IF Has(document, "annotations")
            THEN remove_duplicate_records(ValuesOf(entities) \o document.annotations)
            ELSE ValuesOf(entities)
    IN  [ops |-> <<[_id |-> src_doc_id, _op_type |-> "update",
                    annotations |-> refined_annotations,
                    _index |-> get_index_name(source_index_name, "", FALSE)[1]]>>,
         raised |-> FALSE]

\* lines 166-200: the generator in nested-objects mode; stored is what get_doc reads and
\* searchable what doc_exists counts
PrepareNested(cfg, entities, document, stored, searchable) ==
    IF ~Has(document, source_docid_field) THEN [ops |-> <<>>, raised |-> TRUE]
    ELSE
    LET ann_doc_id == "doc_" \o document[source_docid_field] \o "_annotations"
        index_name == get_index_name(sink_index_name, "", FALSE)[1]
        already_exists == doc_exists(searchable, "_id", ann_doc_id, "")
        found == { r \in stored : r._index = index_name /\ r._id = ann_doc_id }
    IN  IF already_exists
        THEN IF found = {} THEN [ops |-> <<>>, raised |-> TRUE]
             ELSE LET ann_doc == (CHOOSE r \in found : TRUE)._source
                  IN  IF Has(ann_doc, "annotations")
                      THEN [ops |-> <<[_id |-> ann_doc_id, _op_type |-> "update",
                                       annotations |-> remove_duplicate_records(
                                           ValuesOf(entities) \o ann_doc.annotations),
                                       _index |-> index_name]>>,
                            raised |-> FALSE]
                      ELSE [ops |-> <<>>, raised |-> TRUE]
        ELSE [ops |-> <<[_id |-> ann_doc_id, _op_type |-> "index",
                         _source |-> Update([annotations |-> ValuesOf(entities)],
                                            MetaFields(cfg, document)),
                         _index |-> index_name]>>,
              raised |-> FALSE]

\* _prepare_annotations, lines 140-227
_prepare_annotations(cfg, entities, document, src_doc_id, stored, searchable) ==
    IF cfg.same_index_ingest THEN PrepareSame(cfg, entities, document, src_doc_id)
    ELSE IF cfg.use_nested_objects
         THEN PrepareNested(cfg, entities, document, stored, searchable)
         ELSE PrepareSeparate(cfg, KeysOf(entities), entities, document)

\* _index_annotations, lines 103-138: the index calls made before it returns or raises.
\* In same-index mode es.update is called without the id it requires; in separate mode
\* the loop iterates the keys of the entity map, and a key has no items()
_index_annotations(cfg, entities, document, src_doc_id) ==
    LET updated_annotations ==
            IF Has(document, "annotations")
            THEN ValuesOf(entities) \o document.annotations
            ELSE ValuesOf(entities)
    IN  IF cfg.same_index_ingest THEN [ops |-> <<>>, raised |-> TRUE]
        ELSE IF cfg.use_nested_objects
             THEN [ops |-> <<[_id |-> src_doc_id \o "_annotations", _op_type |-> "index",
                              _source |-> Update(document,
                                                 [annotations |-> updated_annotations]),
                              _index |-> get_index_name(sink_index_name, "", FALSE)[1]]>>,
                   raised |-> FALSE]
             ELSE [ops |-> <<>>, raised |-> DOMAIN entities # {}]

\* _document_already_processed, lines 80-101
_document_already_processed(cfg, doc, searchable) ==
    IF cfg.same_index_ingest
    THEN Has(doc, "annotations") /\ Len(doc.annotations) > 0
    ELSE doc_exists(searchable, Prefixed(FIELD_META_PREFIX, source_docid_field),
                    doc[source_docid_field],
                    IF Len(cfg.split_index_by_field) > 0 THEN "*" ELSE "")

\* SkipDocument that does not look at skip_doc_check
SkipDocument_IgnoreFlag(config, doc, searchable) ==
    _document_already_processed(config, doc, searchable)

\* line 252: the document is skipped as already processed; the check is evaluated only
\* when skip_doc_check is set
SkipDocument(config, doc, searchable) ==
    config.skip_doc_check /\ _document_already_processed(config, doc, searchable)

\* NoContent without the test of the length
NoContent_NoLength(doc) ==
    \/ ~Has(doc, source_text_field)
    \/ doc[source_text_field] = <<>>

\* lines 245-246: there is no content to process
NoContent(doc) ==
    \/ ~Has(doc, source_text_field)
    \/ doc[source_text_field] = <<>>
    \/ Len(doc[source_text_field][1]) < MIN_TEXT_LEN

\* ResultOf that reads a response without entities as one with no entity
ResultOf_MissingAsEmpty(response) ==
    IF response # NoneValue /\ Has(response, "result")
          /\ Has(response.result, "annotations") /\ response.result.annotations # NoneValue
          /\ Has(response.result.annotations, "entities")
          /\ response.result.annotations.entities # NoneValue
    THEN [usable |-> TRUE, result |-> response.result.annotations.entities]
    ELSE IF response # NoneValue /\ ~Has(response, "result") /\ Has(response, "entities")
               /\ response.entities # NoneValue
    THEN [usable |-> TRUE, result |-> response.entities]
    ELSE [usable |-> TRUE, result |-> <<>>]

\* lines 266-289: the entities taken from the response; usable is FALSE where the code
\* returns or raises before any write
ResultOf(response) ==
    IF response = NoneValue THEN [usable |-> FALSE]
    ELSE IF Has(response, "result")
    THEN IF ~Has(response.result, "annotations") \/ response.result.annotations = NoneValue
         THEN [usable |-> FALSE]
         ELSE IF ~Has(response.result.annotations, "entities")
                   \/ response.result.annotations.entities = NoneValue
              THEN [usable |-> FALSE]
              ELSE [usable |-> TRUE, result |-> response.result.annotations.entities]
    ELSE IF Has(response, "entities")
         THEN IF response.entities # NoneValue
              THEN [usable |-> TRUE, result |-> response.entities]
              ELSE [usable |-> FALSE]
         ELSE [usable |-> FALSE]

\* lines 291-294: the operations that reach the store for a usable result
WrittenOps(cfg, result, document, src_doc_id, stored, searchable) ==
    IF cfg.use_bulk_indexing
    THEN SentOps(_prepare_annotations(cfg, result, document, src_doc_id, stored, searchable))
    ELSE _index_annotations(cfg, result, document, src_doc_id).ops

\* lines 291-294: the preparation of the operations raises
WriteRaises(cfg, result, document, src_doc_id, stored, searchable) ==
    IF cfg.use_bulk_indexing
    THEN _prepare_annotations(cfg, result, document, src_doc_id, stored, searchable).raised
    ELSE _index_annotations(cfg, result, document, src_doc_id).raised

\* the operations of ops, from the i-th on, that the store accepts
RECURSIVE AcceptedOps(_, _, _)
AcceptedOps(ops, i, accepted) ==
    IF i > Len(ops) THEN <<>>
    ELSE (IF i \in accepted THEN <<ops[i]>> ELSE <<>>) \o AcceptedOps(ops, i + 1, accepted)

-----------------------------------------------------------------------------
(* The inputs: configuration, batch and source index *)

DocIds == {"d1", "d2"}

\* the value of the docid field of a source document
DocidOf(id) == IF id = "d1" THEN "100" ELSE "200"

\* the text field of a source document: absent, None or a str
TextChoices ==
    { [present |-> FALSE] } \cup { [present |-> TRUE, value |-> v] : v \in TextValues }

SourceDoc(id, text, day) ==
    LET base == [docid |-> DocidOf(id), dates |-> day]
    IN  IF text.present THEN Update(base, [text |-> text.value]) ELSE base

\* the annotations field of a source document: absent, an empty list or a list of entities
AnnotationChoices ==
    { [present |-> FALSE], [present |-> TRUE, value |-> <<>>],
      [present |-> TRUE, value |-> <<EntityDisease>>] }

WithAnnotations(doc, annotations) ==
    IF annotations.present THEN Update(doc, [annotations |-> annotations.value]) ELSE doc

\* the sink index before the run: empty, or holding under the id of the nested record of
\* d1 a record that has no annotations field
SinkChoices ==
    { {},
      { [_index  |-> get_index_name(sink_index_name, "", FALSE)[1],
         _id     |-> "doc_" \o DocidOf("d1") \o "_annotations",
         _source |-> (Prefixed(FIELD_META_PREFIX, "docid") :> DocidOf("d1"))] } }

\* an index of a store: whether it exists and how its mapping declares annotations
Index(exists, annotations) == [exists |-> exists, annotations |-> annotations]

\* the two indices before the run
Mappings(source_index, sink_index) ==
    (source_index_name :> source_index) @@ (sink_index_name :> sink_index)

DefaultMappings == Mappings(Index(TRUE, ""), Index(TRUE, ""))

Modes == { [same_index_ingest |-> FALSE, use_nested_objects |-> FALSE],
           [same_index_ingest |-> FALSE, use_nested_objects |-> TRUE],
           [same_index_ingest |-> TRUE,  use_nested_objects |-> FALSE] }

Config(m, skip, split, persist, interval, threads, bulk, request_mode, endpoints) ==
    Update(m, [skip_doc_check |-> skip, split_index_by_field |-> split,
               source_fields_to_persist |-> persist, interval |-> interval,
               threads |-> threads, use_bulk_indexing |-> bulk,
               endpoint_request_mode |-> request_mode,
               url_endpoints |-> SubSeq(Urls, 1, endpoints),
               same_hosts |-> FALSE,
               es_nested_object_schema_mapping |-> ""])

\* __main__.py lines 67 and 93: the sink is configured with the hosts of the source, so
\* that both indexers talk to one cluster
OnHosts(config, same_hosts) == [config EXCEPT !.same_hosts = same_hosts]

\* the runs that vary the configuration of the pipeline: one endpoint, one batch of two
\* windows, the document d1 dated on their common boundary and d2 after the batch
PipelineInputs ==
    { [config |-> OnHosts(Config(c.m, c.skip, c.split, c.persist, 1, 1, c.bulk,
                                 c.request_mode, 1),
                          c.same_hosts),
       start  |-> strftime(FirstDay),
       end    |-> strftime(FirstDay + 2),
       src    |-> ("d1" :> WithAnnotations(SourceDoc("d1", c.text, FirstDay + 1),
                                             c.annotations))
                  @@ ("d2" :> SourceDoc("d2", [present |-> TRUE, value |-> <<StableText>>],
                                        FirstDay + 3)),
       snk    |-> c.snk,
       maps   |-> Mappings(Index(TRUE, IF c.annotations.present THEN "flattened" ELSE ""),
                           Index(TRUE, ""))] :
        c \in { c \in [m : Modes, skip : BOOLEAN, split : {"", "type"},
                       persist : {{"docid", "dates"}, {"dates"}}, bulk : BOOLEAN,
                       request_mode : {"", "gate-nlp"}, text : TextChoices,
                       annotations : AnnotationChoices, snk : SinkChoices,
                       same_hosts : BOOLEAN] :
                   /\ c.m.same_index_ingest \/ ~c.annotations.present
                   /\ (c.m.same_index_ingest /\ c.bulk) \/ ~c.same_hosts
                   /\ (c.m.use_nested_objects /\ c.bulk) \/ c.snk = {} } }

\* the runs that vary the number of endpoints: the document d1 dated in the last
\* window only and d2 after the batch
EndpointInputs ==
    { [config |-> Config(m, skip, "", {"docid", "dates"}, 1, 1, TRUE, request_mode, endpoints),
       start  |-> strftime(FirstDay),
       end    |-> strftime(FirstDay + 2),
       src    |-> ("d1" :> SourceDoc("d1", [present |-> TRUE, value |-> <<"flu and cough">>],
                                        FirstDay + 2))
                  @@ ("d2" :> SourceDoc("d2", [present |-> TRUE, value |-> <<StableText>>],
                                        FirstDay + 3)),
       snk    |-> {},
       maps   |-> DefaultMappings] :
        m \in Modes, skip \in BOOLEAN, request_mode \in {"", "gate-nlp"},
        endpoints \in 1..MaxEndpoints }

\* the runs that vary the batch, the interval, the pool and the dates of the documents,
\* d1 dated no later than d2
ScheduleInputs ==
    { [config |-> Config([same_index_ingest |-> FALSE, use_nested_objects |-> FALSE],
                         skip, "", {"docid", "dates"}, interval, threads, TRUE, "", 1),
       start  |-> start,
       end    |-> end,
       src    |-> [id \in DocIds |->
                     SourceDoc(id, [present |-> TRUE, value |-> <<StableText>>],
                               FirstDay + n[id])],
       snk    |-> {},
       maps   |-> DefaultMappings] :
        skip \in BOOLEAN, interval \in 0..MaxInterval, threads \in {1, MaxThreads},
        start \in BatchDates, end \in BatchDates,
        n \in { n \in [DocIds -> 0..MaxDay] : n["d1"] <= n["d2"] } }

\* the runs that vary the schema profile and the mappings the indices have before the
\* run, the sink index possibly missing: one window with the document d1
MappingInputs ==
    { [config |-> [Config([same_index_ingest |-> same, use_nested_objects |-> nested],
                          FALSE, "", {"docid", "dates"}, 1, 1, TRUE, "", 1)
                     EXCEPT !.es_nested_object_schema_mapping = profile,
                            !.same_hosts = same],
       start  |-> strftime(FirstDay),
       end    |-> strftime(FirstDay),
       src    |-> ("d1" :> SourceDoc("d1", [present |-> TRUE, value |-> <<StableText>>],
                                        FirstDay))
                  @@ ("d2" :> SourceDoc("d2", [present |-> TRUE, value |-> <<StableText>>],
                                        FirstDay + 3)),
       snk    |-> {},
       maps   |-> Mappings(Index(TRUE, source_annotations), sink_index)] :
        same \in BOOLEAN, nested \in BOOLEAN,
        profile \in {"", "medcat-nested-object", "Medcat-Nested-Object"},
        source_annotations \in {"", "flattened", "nested", "medcat-nested-object"},
        sink_index \in { Index(FALSE, "") }
                       \cup { Index(TRUE, a) :
                                a \in {"", "flattened", "nested", "medcat-nested-object"} } }

\* the runs of a batch of one day with an interval below zero, which timedelta accepts:
\* the interval is read from the configuration as it is
NegativeIntervalInputs ==
    { [config |-> Config([same_index_ingest |-> FALSE, use_nested_objects |-> FALSE],
                         skip, "", {"docid", "dates"}, 0 - 1, 1, TRUE, "", 1),
       start  |-> day,
       end    |-> day,
       src    |-> ("d1" :> SourceDoc("d1", [present |-> TRUE, value |-> <<StableText>>],
                                        FirstDay))
                  @@ ("d2" :> SourceDoc("d2", [present |-> TRUE, value |-> <<StableText>>],
                                        FirstDay + 1)),
       snk    |-> {},
       maps   |-> DefaultMappings] :
        skip \in BOOLEAN, day \in BatchDates }

\* the runs in which one window holds both documents, in every mode of writing: a batch
\* of one day, both documents dated on it
SharedWindowInputs ==
    { [config |-> OnHosts(Config(c.m, c.skip, "", {"docid", "dates"}, 1, c.threads, TRUE,
                                 "", 1),
                          c.same_hosts),
       start  |-> strftime(FirstDay),
       end    |-> strftime(FirstDay),
       src    |-> [id \in DocIds |->
                     SourceDoc(id, [present |-> TRUE, value |-> <<StableText>>], FirstDay)],
       snk    |-> c.snk,
       maps   |-> DefaultMappings] :
        c \in { c \in [m : Modes, skip : BOOLEAN, threads : {1, MaxThreads},
                       snk : SinkChoices, same_hosts : BOOLEAN] :
                   /\ c.m.same_index_ingest \/ ~c.same_hosts
                   /\ c.m.use_nested_objects \/ c.snk = {} } }

Inputs ==
    PipelineInputs \cup EndpointInputs \cup ScheduleInputs \cup MappingInputs
        \cup NegativeIntervalInputs \cup SharedWindowInputs

Timestamps == {"10:00:00", "10:00:01"}

NoResponse == [pending |-> TRUE]

Idle == [id \in DocIds |-> "idle"]

-----------------------------------------------------------------------------
(* BatchAnnotationsIndexer.index_range and the worker pool *)

cfg == annotation_indexer_config

QueryIdle ==
    /\ query_pc = "idle"
    /\ query_text = ""
    /\ url_index = 1
    /\ number_of_retries = 0
    /\ request_status = 0
    /\ request_responses = <<>>
    /\ final_response = <<>>
    /\ endpoint_bodies = <<>>
    /\ posts = <<>>

InitWith(config, start, end, src, snk) ==
    /\ annotation_indexer_config = config
    /\ batch_date_start = start
    /\ batch_date_end = end
    /\ sched_pc = "start"
    /\ seg_batch_date_start = start
    /\ seg_batch_date_end = start
    /\ continue_read = FALSE
    /\ doc_ids = {}
    /\ windows = <<>>
    /\ executors = <<>>
    /\ task = Idle
    /\ nlp_response = [id \in DocIds |-> NoResponse]
    /\ source = src
    /\ sink = snk
    /\ sink_searchable = snk
    /\ auto_id = 0
    /\ nlp_calls = [id \in DocIds |-> 0]
    /\ emitted = [id \in DocIds |-> {}]
    /\ pass_results = [id \in DocIds |-> {}]
    /\ endpoints_failed = [id \in DocIds |-> FALSE]
    /\ abandoned = [id \in DocIds |-> FALSE]
    /\ faults = 0
    /\ QueryIdle

DedupIdle ==
    /\ dedup_pc = "idle"
    /\ list_of_dicts = <<>>
    /\ list_of_strings = <<>>
    /\ deduplicated = <<>>
    /\ dedup_calls = <<>>

NoException == [type |-> ""]

BulkIdle ==
    /\ bulk_pc = "idle"
    /\ actions_generator = [length |-> 0, rejected |-> {}, raises |-> FALSE]
    /\ submitted = 0
    /\ failed_docs = 0
    /\ bulk_exception = NoException
    /\ bulk_log = <<>>

MappingIdle ==
    /\ mappings = DefaultMappings
    /\ mapping_requests = <<>>

Init ==
    /\ \E input \in Inputs :
          /\ InitWith(input.config, input.start, input.end, input.src, input.snk)
          /\ mappings = input.maps
    /\ mapping_requests = <<>>
    /\ DedupIdle
    /\ BulkIdle

\* lines 842-845
\* the declaration of the annotations field in the mapping of an index: none, a type, or
\* the nested type with the properties of the profile
NotDeclared == ""

\* line 359: the one profile index_range knows
MedcatNestedObject == "medcat-nested-object"

TypeOfDeclaration(declaration) ==
    IF declaration = MedcatNestedObject THEN "nested" ELSE declaration

\* indices.put_mapping of the store on an index: an empty body changes nothing, the type
\* of a declared field cannot be changed, and new properties are merged in
put_mapping(index, body) ==
    IF ~index.exists THEN [ok |-> FALSE, index |-> index]
    ELSE IF body = NotDeclared THEN [ok |-> TRUE, index |-> index]
    ELSE IF index.annotations = NotDeclared
         THEN [ok |-> TRUE, index |-> [index EXCEPT !.annotations = body]]
    ELSE IF TypeOfDeclaration(index.annotations) # TypeOfDeclaration(body)
         THEN [ok |-> FALSE, index |-> index]
    ELSE [ok |-> TRUE,
          index |-> [index EXCEPT !.annotations =
                        IF body = MedcatNestedObject THEN body ELSE @]]

\* RequestBody that knows no profile
RequestBody_NoProfile(config, source_mapping) ==
    IF config.same_index_ingest /\ source_mapping.annotations = NotDeclared
    THEN IF config.use_nested_objects THEN "nested" ELSE "flattened"
    ELSE NotDeclared

\* lines 344-834: request_body, {} unless same-index mode finds the field undeclared or
\* the profile is configured
RequestBody(config, source_mapping) ==
    IF Lower(config.es_nested_object_schema_mapping) = MedcatNestedObject
    THEN MedcatNestedObject
    ELSE IF config.same_index_ingest /\ source_mapping.annotations = NotDeclared
         THEN IF config.use_nested_objects THEN "nested" ELSE "flattened"
         ELSE NotDeclared

\* lines 835-840: the index whose mapping is put, "" when none is
MappingTarget(config) ==
    IF config.same_index_ingest THEN source_index_name
    ELSE IF config.es_nested_object_schema_mapping # "" THEN sink_index_name
    ELSE ""

\* lines 342-845: the mapping is put before the loop; an index that is missing is created
\* when it is the sink, and a request the store rejects raises out of index_range
IndexRangeStart ==
    /\ sched_pc = "start"
    /\ LET target  == MappingTarget(cfg)
           body    == RequestBody(cfg, mappings[source_index_name])
           created == IF target = sink_index_name /\ ~mappings[target].exists
                      THEN [mappings EXCEPT ![target].exists = TRUE]
                      ELSE mappings
           answer  == put_mapping(created[target], body)
       IN  IF target = ""
           THEN /\ sched_pc' = "loop"
                /\ UNCHANGED mappingVars
           ELSE /\ mapping_requests' = Append(mapping_requests,
                                              [request |-> "put_mapping", index |-> target,
                                               body |-> body])
                /\ mappings' = [created EXCEPT ![target] = answer.index]
                /\ sched_pc' = IF answer.ok THEN "loop" ELSE "raised"
    /\ continue_read' = (sched_pc' = "loop")
    /\ seg_batch_date_start' = batch_date_start
    /\ seg_batch_date_end' = batch_date_start
    /\ UNCHANGED <<annotation_indexer_config, batch_date_start, batch_date_end, doc_ids,
                   windows, executors, docVars, queryVars, pureVars>>

\* Segment that reads on when the end of the batch is reached exactly
Segment_Strict(start, interval, batch_end) ==
    LET dt_seg_batch_date_end == strptime(start) + interval
    IN  IF dt_seg_batch_date_end > strptime(batch_end)
        THEN [seg_batch_date_end |-> batch_end, continue_read |-> FALSE]
        ELSE [seg_batch_date_end |-> strftime(dt_seg_batch_date_end), continue_read |-> TRUE]

\* Segment that does not cut the last segment at the end of the batch
Segment_NoClamp(start, interval, batch_end) ==
    LET dt_seg_batch_date_end == strptime(start) + interval
    IN  [seg_batch_date_end |-> strftime(dt_seg_batch_date_end),
         continue_read |-> dt_seg_batch_date_end < strptime(batch_end)]

\* Segment that ends the batch only with a segment of a positive interval
Segment_PositiveOnly(start, interval, batch_end) ==
    LET dt_seg_batch_date_end == strptime(start) + interval
    IN  IF dt_seg_batch_date_end >= strptime(batch_end) /\ interval > 0
        THEN [seg_batch_date_end |-> batch_end, continue_read |-> FALSE]
        ELSE [seg_batch_date_end |-> strftime(dt_seg_batch_date_end), continue_read |-> TRUE]

\* lines 849-854: the end of the segment that starts at start, and whether to read on
Segment(start, interval, batch_end) ==
    LET dt_seg_batch_date_end == strptime(start) + interval
    IN  IF dt_seg_batch_date_end >= strptime(batch_end)
        THEN [seg_batch_date_end |-> batch_end, continue_read |-> FALSE]
        ELSE [seg_batch_date_end |-> strftime(dt_seg_batch_date_end), continue_read |-> TRUE]

\* lines 847-861 up to the submission of the ids to the pool
\* ExecutorFor that creates the executor of the first window and keeps it afterwards
ExecutorFor_Reused(created, threads) ==
    IF created = <<>> THEN <<threads>> ELSE created

\* line 860: the with statement is inside the while loop, so every window creates a
\* ThreadPoolExecutor of max_workers threads, shut down when the block is left
ExecutorFor(created, threads) == Append(created, threads)

NextWindow ==
    /\ sched_pc = "loop"
    /\ continue_read
    /\ Len(windows) < MaxWindows
    /\ LET seg == Segment(seg_batch_date_end, cfg.interval, batch_date_end)
           ids == get_doc_ids_by_range_scan(source, source_batch_date_field,
                                            seg_batch_date_end, seg.seg_batch_date_end)
       IN  /\ seg_batch_date_start' = seg_batch_date_end
           /\ seg_batch_date_end' = seg.seg_batch_date_end
           /\ continue_read' = seg.continue_read
           /\ doc_ids' = ids
           /\ windows' = Append(windows, [start |-> seg_batch_date_end,
                                          end |-> seg.seg_batch_date_end,
                                          doc_ids |-> ids])
           /\ task' = [id \in DocIds |->
                         IF id \in ids THEN "queued"
                         ELSE IF task[id] = "done" THEN "idle" ELSE task[id]]
    /\ executors' = ExecutorFor(executors, cfg.threads)
    /\ sched_pc' = "pool"
    /\ UNCHANGED <<annotation_indexer_config, batch_date_start, batch_date_end,
                   nlp_response, source, sink, sink_searchable, auto_id, nlp_calls,
                   emitted, pass_results, endpoints_failed, abandoned, faults, queryVars,
                   mappingVars, pureVars>>

\* the scan is wrapped in a try block that logs the error
ScanErrorPropagates_Caught == FALSE

\* lines 856-857: the call of _get_doc_ids_range stands in no try block, so an error of
\* elasticsearch.helpers.scan leaves index_range
ScanErrorPropagates == TRUE

\* lines 847-857 when the scan of the source raises (es_common.py lines 299-303): the
\* store does not answer or rejects the query
RangeScanRaises ==
    /\ sched_pc = "loop"
    /\ continue_read
    /\ Len(windows) < MaxWindows
    /\ faults < MaxFaults
    /\ faults' = faults + 1
    /\ sched_pc' = IF ScanErrorPropagates THEN "raised" ELSE "loop"
    /\ UNCHANGED <<annotation_indexer_config, batch_date_start, batch_date_end,
                   seg_batch_date_start, seg_batch_date_end, continue_read, doc_ids,
                   windows, executors, task, nlp_response, source, sink, sink_searchable, auto_id,
                   nlp_calls, emitted, pass_results, endpoints_failed, abandoned,
                   queryVars, mappingVars, pureVars>>

\* a pool that is left without waiting
PoolWaits_NoWait(ids, tasks) == TRUE

\* line 860: leaving the with block waits until every submitted call has ended
PoolWaits(ids, tasks) == \A id \in ids : tasks[id] = "done"

\* lines 860-861: the with block is left
JoinPool ==
    /\ sched_pc = "pool"
    /\ PoolWaits(doc_ids, task)
    /\ sched_pc' = IF continue_read THEN "loop" ELSE "done"
    /\ UNCHANGED <<annotation_indexer_config, batch_date_start, batch_date_end,
                   seg_batch_date_start, seg_batch_date_end, continue_read, doc_ids,
                   windows, executors, docVars, queryVars, mappingVars, pureVars>>

Running == { id \in DocIds : task[id] \notin {"idle", "queued", "done"} }

UnchangedByDoc == <<annotation_indexer_config, schedVars, queryVars, mappingVars, pureVars>>

\* the results of executor.map are read, and the exception of a worker is raised again
ExceptionEndsRun_ResultsRead == TRUE

\* lines 860-861: the iterator executor.map returns is never read, so an exception that
\* leaves _process_document stays in the future of the call and index_range goes on
ExceptionEndsRun == FALSE

\* StageAfter that goes from the fetch to the query without the duplicate check
StageAfter_NoCheck(stage, exits) ==
    IF exits THEN "done"
    ELSE CASE stage = "queued" -> "query"
           [] stage = "check"  -> "query"
           [] stage = "query"  -> "write"
           [] stage = "write"  -> "done"

\* lines 235-298: _process_document is one sequence of statements, left by a return or
\* by an exception; the position of the document after the stage it was in
StageAfter(stage, exits) ==
    IF exits THEN "done"
    ELSE CASE stage = "queued" -> "check"
           [] stage = "check"  -> "query"
           [] stage = "query"  -> "write"
           [] stage = "write"  -> "done"

\* lines 240-248: a worker takes the id, fetches the document and checks its content;
\* get_doc raises when the store does not return the document
Fetch(id) ==
    /\ task[id] = "queued"
    /\ Cardinality(Running) < cfg.threads
    /\ \E found \in { TRUE } \cup { b \in { FALSE } : faults < MaxFaults } :
          IF found
          THEN /\ task' = [task EXCEPT ![id] =
                             StageAfter("queued", NoContent(source[id]))]
               /\ abandoned' = [abandoned EXCEPT ![id] = FALSE]
               /\ faults' = faults
               /\ sched_pc' = sched_pc
          ELSE /\ task' = [task EXCEPT ![id] = StageAfter("queued", TRUE)]
               /\ abandoned' = [abandoned EXCEPT ![id] = TRUE]
               /\ faults' = faults + 1
               /\ sched_pc' = IF ExceptionEndsRun THEN "crashed" ELSE sched_pc
    /\ UNCHANGED <<nlp_response, source, sink, sink_searchable, auto_id, nlp_calls,
                   emitted, pass_results, endpoints_failed, annotation_indexer_config,
                   batch_date_start, batch_date_end, seg_batch_date_start,
                   seg_batch_date_end, continue_read, doc_ids, windows, executors, queryVars,
                   mappingVars, pureVars>>

\* lines 250-254
DuplicateCheck(id) ==
    /\ task[id] = "check"
    /\ task' = [task EXCEPT ![id] =
                  StageAfter("check", SkipDocument(cfg, source[id], sink_searchable))]
    /\ UNCHANGED <<nlp_response, source, sink, sink_searchable, auto_id, nlp_calls,
                   emitted, pass_results, endpoints_failed, abandoned, faults,
                   UnchangedByDoc>>

\* request_responses after the loop of lines 71-92, for the last status and the body of
\* every endpoint
RECURSIVE CollectAll(_, _, _, _, _)
CollectAll(urls, i, mode, status, body) ==
    IF i = 0 THEN <<>>
    ELSE Collect(CollectAll(urls, i - 1, mode, status, body), mode, urls[i], status[i], body[i])

\* NlpService.query as one step of the caller
query(text, mode, urls, status, body, ts) ==
    IF \E i \in 1..Len(urls) : status[i] = ConnectionError
    THEN NoneValue
    ELSE Normalize(CollectAll(urls, Len(urls), mode, status, body), mode, ts)

\* lines 256-264
Query(id) ==
    /\ task[id] = "query"
    /\ LET doc_text == source[id][source_text_field][1]
           urls == cfg.url_endpoints
           mode == cfg.endpoint_request_mode
       IN  \E status \in [1..Len(urls) -> StatusesOf(doc_text)],
              body \in [1..Len(urls) -> Bodies(mode, doc_text)],
              ts \in Timestamps :
                /\ nlp_response' = [nlp_response EXCEPT ![id] =
                                       query(doc_text, mode, urls, status, body, ts)]
                /\ endpoints_failed' = [endpoints_failed EXCEPT ![id] =
                                           \A i \in 1..Len(urls) : status[i] \notin {200, ConnectionError}]
    /\ nlp_calls' = [nlp_calls EXCEPT ![id] = @ + 1]
    /\ pass_results' = [pass_results EXCEPT ![id] = @ \cup {nlp_response'[id]}]
    /\ task' = [task EXCEPT ![id] = StageAfter("query", FALSE)]
    /\ UNCHANGED <<source, sink, sink_searchable, auto_id, emitted, abandoned, faults,
                   UnchangedByDoc>>

\* lines 266-298; the store accepts or rejects each operation it is sent, and the helpers
\* log the error (index_doc) or raise it once the chunk is over (index_docs_bulk_gen)
Write(id) ==
    /\ task[id] = "write"
    /\ LET res == ResultOf(nlp_response[id])
           ops == IF res.usable
                  THEN WrittenOps(cfg, res.result, source[id], id, sink, sink_searchable)
                  ELSE <<>>
           raised == \/ nlp_response[id] = NoneValue
                     \/ res.usable /\ WriteRaises(cfg, res.result, source[id], id, sink,
                                                  sink_searchable)
       IN  \E accepted \in { a \in SUBSET (1..Len(ops)) :
                                a = 1..Len(ops) \/ faults < MaxFaults } :
              LET applied == ApplyOps([store |-> sink, auto_id |-> auto_id],
                                      AcceptedOps(ops, 1, accepted))
              IN  /\ sink' = applied.store
                  /\ source' = IF cfg.same_hosts
                                THEN ApplyToSource(source, AcceptedOps(ops, 1, accepted))
                                ELSE source
                  /\ auto_id' = applied.auto_id
                  /\ emitted' = [emitted EXCEPT ![id] = @ \cup { ops[i] : i \in 1..Len(ops) }]
                  /\ abandoned' = [abandoned EXCEPT ![id] =
                                      raised \/ accepted # 1..Len(ops)]
                  /\ faults' = IF accepted = 1..Len(ops) THEN faults ELSE faults + 1
    /\ nlp_response' = [nlp_response EXCEPT ![id] = NoResponse]
    /\ task' = [task EXCEPT ![id] = StageAfter("write", FALSE)]
    /\ UNCHANGED <<sink_searchable, nlp_calls, pass_results,
                   endpoints_failed, UnchangedByDoc>>

\* the store makes what was written visible to search
Refresh ==
    /\ sink_searchable # sink
    /\ sink_searchable' = sink
    /\ UNCHANGED <<task, nlp_response, source, sink, auto_id, nlp_calls, emitted,
                   pass_results, endpoints_failed, abandoned, faults, UnchangedByDoc>>

-----------------------------------------------------------------------------
(* NlpService.query, request by request *)

\* the texts query is called with
QueryTexts == {"flu and cough", StableText}

\* RetryAgain that allows one retry more
RetryAgain_OneMore(status, retries) == status # 200 /\ retries <= max_number_of_retries

\* line 77: the condition of the retry loop
RetryAgain(status, retries) == status # 200 /\ retries < max_number_of_retries

UnchangedByQuery == <<annotation_indexer_config, schedVars, docVars, mappingVars, pureVars>>

\* lines 49-70
QueryStart ==
    /\ query_pc = "idle"
    /\ \E text \in QueryTexts : query_text' = text
    /\ query_pc' = "post"
    /\ UNCHANGED <<url_index, number_of_retries, request_status, request_responses,
                   endpoint_bodies, final_response, posts, UnchangedByQuery>>

\* lines 71-75: the first request to the endpoint
QueryPost ==
    /\ query_pc = "post"
    /\ \E status \in StatusesOf(query_text) \ {ConnectionError} :
          /\ request_status' = status
          /\ posts' = Append(posts, [url |-> url_index, status |-> status])
    /\ number_of_retries' = 0
    /\ query_pc' = "while"
    /\ UNCHANGED <<query_text, url_index, request_responses, endpoint_bodies,
                   final_response, UnchangedByQuery>>

\* lines 77-80: one more request to the same endpoint
QueryRetry ==
    /\ query_pc = "while"
    /\ RetryAgain(request_status, number_of_retries)
    /\ \E status \in StatusesOf(query_text) \ {ConnectionError} :
          /\ request_status' = status
          /\ posts' = Append(posts, [url |-> url_index, status |-> status])
    /\ number_of_retries' = number_of_retries + 1
    /\ UNCHANGED <<query_pc, query_text, url_index, request_responses, endpoint_bodies,
                   final_response, UnchangedByQuery>>

\* lines 82-92: the response of the endpoint is collected and the next endpoint is taken
QueryCollect ==
    /\ query_pc = "while"
    /\ ~RetryAgain(request_status, number_of_retries)
    /\ \E body \in Bodies(cfg.endpoint_request_mode, query_text) :
          /\ request_responses' = Collect(request_responses, cfg.endpoint_request_mode,
                                          cfg.url_endpoints[url_index], request_status, body)
          /\ endpoint_bodies' = Append(endpoint_bodies,
                                       IF request_status = 200 THEN body ELSE <<>>)
    /\ IF url_index < Len(cfg.url_endpoints)
       THEN url_index' = url_index + 1 /\ query_pc' = "post"
       ELSE url_index' = url_index /\ query_pc' = "normalize"
    /\ UNCHANGED <<query_text, number_of_retries, request_status, final_response, posts,
                   UnchangedByQuery>>

\* lines 96-136
QueryReturn ==
    /\ query_pc = "normalize"
    /\ \E ts \in Timestamps :
          final_response' = Normalize(request_responses, cfg.endpoint_request_mode, ts)
    /\ query_pc' = "returned"
    /\ UNCHANGED <<query_text, url_index, number_of_retries, request_status,
                   request_responses, endpoint_bodies, posts, UnchangedByQuery>>

\* lines 73, 79 and 135-136: requests.post raises, the exception is logged and query
\* returns None
QueryRaises ==
    /\ ConnectionError \in StatusesOf(query_text)
    /\ \/ query_pc = "post"
       \/ query_pc = "while" /\ RetryAgain(request_status, number_of_retries)
    /\ posts' = Append(posts, [url |-> url_index, status |-> ConnectionError])
    /\ request_status' = ConnectionError
    /\ final_response' = NoneValue
    /\ query_pc' = "returned"
    /\ UNCHANGED <<query_text, url_index, number_of_retries, request_responses,
                   endpoint_bodies, UnchangedByQuery>>

InitQuery ==
    /\ MappingIdle
    /\ DedupIdle
    /\ BulkIdle
    /\ \E request_mode \in {"", "gate-nlp"}, endpoints \in 1..MaxEndpoints :
        InitWith(Config([same_index_ingest |-> FALSE, use_nested_objects |-> FALSE],
                        FALSE, "", {"docid", "dates"}, 1, 1, TRUE, request_mode, endpoints),
                 strftime(FirstDay), strftime(FirstDay),
                 [id \in DocIds |-> SourceDoc(id, [present |-> TRUE, value |-> <<StableText>>],
                                              FirstDay)],
                 {})

NextQuery ==
    QueryStart \/ QueryPost \/ QueryRetry \/ QueryCollect \/ QueryReturn \/ QueryRaises

SpecQuery == InitQuery /\ [][NextQuery]_vars

\* ---------------------------------------------------------------------------------------
\* utils.remove_duplicate_records on JSON records.  Here a record is the sequence of its
\* members [key, value] in insertion order (a Python dict), a value is [int |-> n] or
\* [dict |-> record], and a JSON text is the sequence of its tokens.
\* ---------------------------------------------------------------------------------------

\* the keys of the records below, in the order sorted() gives them
SortedKeys == <<"a", "b", "id", "meta">>

KeyRank(key) == CHOOSE i \in 1..Len(SortedKeys) : SortedKeys[i] = key

Without(seq, i) == SubSeq(seq, 1, i - 1) \o SubSeq(seq, i + 1, Len(seq))

RECURSIVE SortedMembers(_)
SortedMembers(d) ==
    IF d = <<>> THEN <<>>
    ELSE LET first == CHOOSE i \in 1..Len(d) :
                          \A j \in 1..Len(d) : KeyRank(d[i].key) <= KeyRank(d[j].key)
         IN  <<d[first]>> \o SortedMembers(Without(d, first))

\* json.dumps of a record: the members in insertion order, or sorted by key at every
\* level of nesting with sort_keys
RECURSIVE Dumps(_, _)
Dumps(d, sort_keys) ==
    LET members == IF sort_keys THEN SortedMembers(d) ELSE d
        DumpsValue(v) == IF DOMAIN v = {"int"} THEN <<ToString(v.int)>>
                         ELSE Dumps(v.dict, sort_keys)
        DumpsFrom[i \in 1..(Len(members) + 1)] ==
            IF i > Len(members) THEN <<>>
            ELSE (IF i > 1 THEN <<",">> ELSE <<>>)
                 \o <<members[i].key, ":">> \o DumpsValue(members[i].value) \o DumpsFrom[i + 1]
    IN  <<"{">> \o DumpsFrom[1] \o <<"}">>

json_dumps_Unsorted(d) == Dumps(d, FALSE)

\* line 17: json.dumps(d, sort_keys=True)
json_dumps(d) == Dumps(d, TRUE)

ParseInt(token) == CHOOSE n \in 0..9 : ToString(n) = token

\* d[key] = value of a Python dict
SetItem(d, key, value) ==
    IF \E i \in 1..Len(d) : d[i].key = key
    THEN [i \in 1..Len(d) |-> IF d[i].key = key THEN [key |-> key, value |-> value] ELSE d[i]]
    ELSE Append(d, [key |-> key, value |-> value])

\* the members of a JSON object from token i on, added to d in the order they are read
RECURSIVE ParseMembers(_, _, _)
ParseMembers(s, i, d) ==
    IF s[i] = "}" THEN [value |-> d, next |-> i + 1]
    ELSE IF s[i] = "," THEN ParseMembers(s, i + 1, d)
    ELSE IF s[i + 2] = "{"
         THEN LET inner == ParseMembers(s, i + 3, <<>>)
              IN  ParseMembers(s, inner.next, SetItem(d, s[i], [dict |-> inner.value]))
         ELSE ParseMembers(s, i + 3, SetItem(d, s[i], [int |-> ParseInt(s[i + 2])]))

\* line 19: json.loads(s)
json_loads(s) == ParseMembers(s, 2, <<>>).value

\* the records with members drawn from a set, no key twice
RecordsOver(members) ==
    { d \in UNION { [1..n -> members] : n \in 0..Cardinality({ m.key : m \in members }) } :
        \A i, j \in DOMAIN d : i # j => d[i].key # d[j].key }

InnerMembers == { [key |-> "a", value |-> [int |-> 1]], [key |-> "b", value |-> [int |-> 2]] }

OuterMembers ==
    { [key |-> "id", value |-> [int |-> 7]] }
    \cup { [key |-> "meta", value |-> [dict |-> d]] : d \in RecordsOver(InnerMembers) }

DedupRecords == RecordsOver(OuterMembers)

Orders(S) == { order \in [1..Cardinality(S) -> S] : \A x \in S : \E i \in DOMAIN order : order[i] = x }

\* the pipeline stands still in this specification
InitDedup ==
    /\ InitWith(Config([same_index_ingest |-> FALSE, use_nested_objects |-> FALSE],
                       FALSE, "", {"docid", "dates"}, 1, 1, TRUE, "", 1),
                strftime(FirstDay), strftime(FirstDay),
                [id \in DocIds |-> SourceDoc(id, [present |-> TRUE, value |-> <<StableText>>],
                                             FirstDay)],
                {})
    /\ MappingIdle
    /\ BulkIdle
    /\ dedup_pc = "called"
    /\ list_of_dicts \in UNION { [1..n -> DedupRecords] : n \in 0..MaxRecords }
    /\ list_of_strings = <<>>
    /\ deduplicated = <<>>
    /\ dedup_calls = <<>>

\* line 17
DedupDumps ==
    /\ dedup_pc = "called"
    /\ list_of_strings' = [i \in 1..Len(list_of_dicts) |-> json_dumps(list_of_dicts[i])]
    /\ dedup_pc' = "dumped"
    /\ UNCHANGED <<pipelineVars, bulkVars,
                   list_of_dicts,
                   deduplicated, dedup_calls>>

\* line 18
DedupSet ==
    /\ dedup_pc = "dumped"
    /\ list_of_strings' = { list_of_strings[i] : i \in 1..Len(list_of_strings) }
    /\ dedup_pc' = "set"
    /\ UNCHANGED <<pipelineVars, bulkVars,
                   list_of_dicts,
                   deduplicated, dedup_calls>>

\* line 19: a set of strings is iterated in an order that differs from process to process
DedupReturn ==
    /\ dedup_pc = "set"
    /\ \E order \in Orders(list_of_strings) :
          deduplicated' = [i \in 1..Len(order) |-> json_loads(order[i])]
    /\ dedup_pc' = "returned"
    /\ UNCHANGED <<pipelineVars, bulkVars,
                   list_of_dicts,
                   list_of_strings, dedup_calls>>

\* the function is called on the list it returned
DedupAgain ==
    /\ dedup_pc = "returned"
    /\ dedup_calls = <<>>
    /\ dedup_calls' = <<[argument |-> list_of_dicts, result |-> deduplicated]>>
    /\ list_of_dicts' = deduplicated
    /\ list_of_strings' = <<>>
    /\ deduplicated' = <<>>
    /\ dedup_pc' = "called"
    /\ UNCHANGED <<pipelineVars, bulkVars>>

NextDedup == DedupDumps \/ DedupSet \/ DedupReturn \/ DedupAgain

SpecDedup == InitDedup /\ [][NextDedup]_vars

\* ---------------------------------------------------------------------------------------
\* ElasticIndexer.index_docs_bulk_gen on a stream of operations.  A stream is
\* [length, rejected, raises]: the number of operations the generator yields, the
\* positions of those the store rejects when it gets them, and whether the generator
\* raises after the last one instead of ending.
\* ---------------------------------------------------------------------------------------

\* lines 182-185: streaming_bulk is called without raise_on_error, which defaults to True
raise_on_error == TRUE

StreamPositions ==
    {1, 2} \cup UNION { {k * BULK_CHUNK_SIZE, k * BULK_CHUNK_SIZE + 1} : k \in 1..MaxChunks }

Streams ==
    { stream \in [length : {0} \cup StreamPositions, rejected : SUBSET StreamPositions,
                  raises : BOOLEAN] :
        \A position \in stream.rejected : position <= stream.length }

\* the pipeline stands still in this specification
InitBulk ==
    /\ InitWith(Config([same_index_ingest |-> FALSE, use_nested_objects |-> FALSE],
                       FALSE, "", {"docid", "dates"}, 1, 1, TRUE, "", 1),
                strftime(FirstDay), strftime(FirstDay),
                [id \in DocIds |-> SourceDoc(id, [present |-> TRUE, value |-> <<StableText>>],
                                             FirstDay)],
                {})
    /\ MappingIdle
    /\ DedupIdle
    /\ bulk_pc = "streaming"
    /\ actions_generator \in Streams
    /\ submitted = 0
    /\ failed_docs = 0
    /\ bulk_exception = NoException
    /\ bulk_log = <<>>

\* lines 182-187, one chunk of streaming_bulk: the chunk is filled from the generator, and
\* an exception of the generator leaves the chunk unsent; a chunk that is sent is applied by
\* the store operation by operation, and with raise_on_error its rejected operations are
\* collected and raised as one BulkIndexError once the chunk is over, while without it
\* they are yielded with status False
BulkChunk ==
    /\ bulk_pc = "streaming"
    /\ bulk_exception = NoException
    /\ LET remaining == actions_generator.length - submitted
           size      == IF remaining < BULK_CHUNK_SIZE THEN remaining ELSE BULK_CHUNK_SIZE
           errors    == { position \in actions_generator.rejected :
                            position > submitted /\ position <= submitted + size }
       IN  /\ remaining > 0 \/ actions_generator.raises
           /\ IF size < BULK_CHUNK_SIZE /\ actions_generator.raises
              THEN /\ bulk_exception' = [type |-> "GeneratorError"]
                   /\ UNCHANGED <<submitted, failed_docs>>
              ELSE /\ submitted' = submitted + size
                   /\ IF raise_on_error /\ errors # {}
                      THEN /\ bulk_exception' = [type  |-> "BulkIndexError",
                                                 count |-> Cardinality(errors)]
                           /\ UNCHANGED failed_docs
                      ELSE /\ failed_docs' = failed_docs + Cardinality(errors)
                           /\ UNCHANGED bulk_exception
    /\ UNCHANGED <<pipelineVars, dedupVars,
                   bulk_pc, actions_generator, bulk_log>>

\* lines 189-190: the stream is over
BulkEnd ==
    /\ bulk_pc = "streaming"
    /\ bulk_exception = NoException
    /\ actions_generator.length = submitted
    /\ ~actions_generator.raises
    /\ bulk_log' = IF failed_docs > 0
                   THEN Append(bulk_log, [level |-> "warn", count |-> failed_docs])
                   ELSE bulk_log
    /\ bulk_pc' = "returned"
    /\ UNCHANGED <<pipelineVars, dedupVars,
                   actions_generator, submitted, failed_docs, bulk_exception>>

\* lines 192-193: except Exception; the line logged holds str(e), which for a
\* BulkIndexError names the number of operations that failed in the chunk
BulkExcept ==
    /\ bulk_pc = "streaming"
    /\ bulk_exception # NoException
    /\ bulk_log' = Append(bulk_log,
                          [level |-> "error",
                           count |-> IF bulk_exception.type = "BulkIndexError"
                                     THEN bulk_exception.count ELSE 0])
    /\ bulk_exception' = NoException
    /\ bulk_pc' = "returned"
    /\ UNCHANGED <<pipelineVars, dedupVars,
                   actions_generator, submitted, failed_docs>>

NextBulk == BulkChunk \/ BulkEnd \/ BulkExcept

SpecBulk == InitBulk /\ [][NextBulk]_vars

-----------------------------------------------------------------------------

Next ==
    \/ IndexRangeStart
    \/ NextWindow
    \/ RangeScanRaises
    \/ JoinPool
    \/ \E id \in DocIds : Fetch(id)
    \/ \E id \in DocIds : DuplicateCheck(id)
    \/ \E id \in DocIds : Query(id)
    \/ \E id \in DocIds : Write(id)
    \/ Refresh

Spec == Init /\ [][Next]_vars

\* the runs in which the passes of the documents are followed to their end: a batch of
\* three days read one day at a time, the two documents in the same window or in two
\* windows, with one thread or more and with or without the duplicate check
FairInputs ==
    { [config |-> Config([same_index_ingest |-> FALSE, use_nested_objects |-> FALSE],
                         skip, "", {"docid", "dates"}, 1, threads, TRUE, "", 1),
       start  |-> strftime(FirstDay),
       end    |-> strftime(FirstDay + 2),
       src    |-> ("d1" :> SourceDoc("d1", [present |-> TRUE, value |-> <<StableText>>],
                                        FirstDay))
                  @@ ("d2" :> SourceDoc("d2", [present |-> TRUE, value |-> <<StableText>>],
                                        FirstDay + n)),
       snk    |-> {},
       maps   |-> DefaultMappings] :
        skip \in BOOLEAN, threads \in {1, MaxThreads}, n \in {0, 1} }

InitFair ==
    /\ \E input \in FairInputs :
          /\ InitWith(input.config, input.start, input.end, input.src, input.snk)
          /\ mappings = input.maps
    /\ mapping_requests = <<>>
    /\ DedupIdle
    /\ BulkIdle

\* line 861: as long as a call given to the pool has not ended, a thread of the pool
\* takes a step of some call
FairSpec ==
    /\ InitFair
    /\ [][Next]_vars
    /\ WF_vars(\E id \in DocIds :
                  Fetch(id) \/ DuplicateCheck(id) \/ Query(id) \/ Write(id))

-----------------------------------------------------------------------------
(* Properties *)

Separate == ~cfg.same_index_ingest /\ ~cfg.use_nested_objects

Ordinal(date) == strptime(date)

Min(a, b) == IF a < b THEN a ELSE b

\* the text field is missing, null or shorter than the minimum length
TextMissingNullOrShort(doc) ==
    \/ "text" \notin DOMAIN doc
    \/ doc.text = <<>>
    \/ Len(doc.text[1]) < MIN_TEXT_LEN

\* C1: a document whose text field is missing, null or shorter than MIN_TEXT_LEN is never
\* sent to the annotation service and no write operation is ever emitted for it
C1_NoContentNoCallNoWrite ==
    \A id \in DocIds :
        TextMissingNullOrShort(source[id]) =>
            /\ nlp_calls[id] = 0
            /\ emitted[id] = {}
            /\ task[id] \in {"idle", "queued", "done"}

\* a document with a text that is too short has been handed to _process_document
C1_Witness ==
    \E id \in DocIds :
        /\ "text" \in DOMAIN source[id]
        /\ source[id].text # <<>>
        /\ Len(source[id].text[1]) < MIN_TEXT_LEN
        /\ id \in doc_ids
        /\ task[id] = "done"

\* C2: in separate mode, applying the operations of _prepare_annotations for a (document,
\* entities) pair a second time leaves the sink as the first application left it, and a
\* pass that obtains the same response as every earlier pass of the document, the records
\* of which the sink holds, emits the operations already emitted (same ids, op types and
\* indices) and does not change the sink
C2_SeparateIdempotent ==
    [][\A id \in DocIds :
         (Separate /\ task[id] = "write" /\ ResultOf(nlp_response[id]).usable) =>
            LET result == ResultOf(nlp_response[id]).result
                ops    == SentOps(_prepare_annotations(cfg, result, source[id], id,
                                                      sink, sink_searchable))
                once   == ApplyOps([store |-> sink, auto_id |-> auto_id], ops)
                twice  == ApplyOps(once, ops)
            IN  /\ twice.store = once.store
                /\ (/\ cfg.use_bulk_indexing
                    /\ task'[id] = "done"
                    /\ nlp_calls[id] >= 2
                    /\ pass_results[id] = {nlp_response[id]}
                    /\ \A op \in emitted[id] :
                          \E r \in sink : r._index = op._index /\ r._id = op._id)
                   => (emitted'[id] = emitted[id] /\ sink' = sink)
      ]_vars

\* a second pass over a document in separate mode has written the operations of the first
C2_Witness ==
    \E id \in DocIds :
        /\ Separate
        /\ cfg.use_bulk_indexing
        /\ task[id] = "done"
        /\ nlp_calls[id] >= 2
        /\ Cardinality(pass_results[id]) = 1
        /\ emitted[id] # {}
        /\ \A op \in emitted[id] : \E r \in sink : r._id = op._id /\ r._index = op._index

\* the sink records that belong to a source document
SinkRecordsOf(id) ==
    { r \in sink :
        \/ SubSeq(r._id, 1, Len("doc-" \o DocidOf(id) \o "-")) = "doc-" \o DocidOf(id) \o "-"
        \/ ("meta.docid" \in DOMAIN r._source /\ r._source["meta.docid"] = DocidOf(id)) }

\* C3: in separate mode without skip_doc_check, once a document whose response has one
\* entity has been processed, after every pass the sink holds exactly one record for it,
\* with id doc-<docId>-ann-<entityId> and the meta.* and nlp.* fields
C3_ExactlyOneRecord ==
    \A id \in DocIds :
        (/\ Separate
         /\ ~cfg.skip_doc_check
         /\ task[id] = "done"
         /\ nlp_calls[id] >= 1
         /\ \E response \in pass_results[id] :
               /\ pass_results[id] = {response}
               /\ ResultOf(response).usable
               /\ Cardinality(DOMAIN ResultOf(response).result) = 1)
        => LET response == CHOOSE response \in pass_results[id] : TRUE
               entities == ResultOf(response).result
               entity   == entities[CHOOSE k \in DOMAIN entities : TRUE]
           IN  /\ Cardinality(SinkRecordsOf(id)) = 1
               /\ \A r \in SinkRecordsOf(id) :
                     /\ r._id = "doc-" \o DocidOf(id) \o "-ann-" \o ToString(entity.id)
                     /\ \A f \in cfg.source_fields_to_persist :
                           ("meta." \o f) \in DOMAIN r._source
                     /\ \A f \in DOMAIN entity : ("nlp." \o f) \in DOMAIN r._source

BatchNonEmpty == Ordinal(batch_date_start) < Ordinal(batch_date_end)

\* C4: for batch_start < batch_end and interval >= 1 the windows begin at batch_start,
\* each starts where the previous one ended, each ends after it starts, at
\* min(start + interval, batch_end), and the last one ends at batch_end
C4_WindowsCoverBatch ==
    (BatchNonEmpty /\ cfg.interval >= 1) =>
        /\ Len(windows) >= 1 => windows[1].start = batch_date_start
        /\ \A i \in 2..Len(windows) : windows[i].start = windows[i - 1].end
        /\ \A i \in 1..Len(windows) :
              /\ Ordinal(windows[i].start) < Ordinal(windows[i].end)
              /\ Ordinal(windows[i].end)
                   = Min(Ordinal(windows[i].start) + cfg.interval, Ordinal(batch_date_end))
        /\ (Len(windows) >= 1 /\ ~continue_read) =>
              windows[Len(windows)].end = batch_date_end
        /\ sched_pc = "done" => Len(windows) >= 1

\* index_range has returned after at least two windows, one of them a full interval
C4_Witness ==
    /\ BatchNonEmpty
    /\ cfg.interval >= 1
    /\ sched_pc = "done"
    /\ Len(windows) >= 2
    /\ windows[Len(windows)].end = batch_date_end

InWindow(day, w) == Ordinal(w.start) <= day /\ day <= Ordinal(w.end)

\* C5: no two windows of a run overlap: no date and no source document falls into the id
\* resolution of more than one window
C5_WindowsDoNotOverlap ==
    (Ordinal(batch_date_start) <= Ordinal(batch_date_end) /\ cfg.interval >= 1) =>
        \A i \in 1..Len(windows), j \in 1..Len(windows) :
            i < j =>
              /\ windows[i].doc_ids \cap windows[j].doc_ids = {}
              /\ ~\E day \in FirstDay..(FirstDay + MaxDay) :
                    InWindow(day, windows[i]) /\ InWindow(day, windows[j])

\* index_range generates at most one window per day of the batch, generates no window
\* after one that ends at batch_end, and stops reading exactly when a window ends there
StopsAtBatchEnd ==
    /\ Len(windows) <= Ordinal(batch_date_end) - Ordinal(batch_date_start) + 1
    /\ \A i \in 1..(Len(windows) - 1) : windows[i].end # batch_date_end
    /\ Len(windows) >= 1 =>
          (continue_read <=> windows[Len(windows)].end # batch_date_end)

\* C6 as stated: for batch_start <= batch_end and every interval, index_range generates
\* finitely many windows and stops exactly after the window that ends at batch_end
C6_TerminatesForEveryInterval ==
    Ordinal(batch_date_start) <= Ordinal(batch_date_end) => StopsAtBatchEnd

\* C6: for batch_start <= batch_end and every interval of at least one day, index_range
\* generates finitely many windows and stops exactly after the window that ends at batch_end
C6_TerminatesForPositiveInterval ==
    (Ordinal(batch_date_start) <= Ordinal(batch_date_end) /\ cfg.interval >= 1)
        => StopsAtBatchEnd

\* index_range has returned after several windows of a positive interval
C6_Witness ==
    /\ BatchNonEmpty
    /\ cfg.interval >= 1
    /\ sched_pc = "done"
    /\ ~continue_read
    /\ Len(windows) = Ordinal(batch_date_end) - Ordinal(batch_date_start)
    /\ Len(windows) >= 3

InProgress(id) == task[id] \in {"queued", "check", "query", "write"}

\* C7: a window's ids are resolved only when _process_document has ended for every id of
\* the window before, and a document in progress belongs to the window resolved last
C7_OneWindowAtATime ==
    [][/\ Len(windows') > Len(windows) => \A id \in DocIds : ~InProgress(id)
       /\ \A id \in DocIds :
             InProgress(id) => (Len(windows) >= 1 /\ id \in windows[Len(windows)].doc_ids)
      ]_vars

\* the documents of a second window are in progress after those of the first were processed
C7_Witness ==
    /\ Len(windows) >= 2
    /\ windows[1].doc_ids # {}
    /\ \A id \in windows[1].doc_ids : nlp_calls[id] >= 1
    /\ \E id \in DocIds : id \notin windows[1].doc_ids /\ task[id] = "query"

PostsTo(url) == { i \in 1..Len(posts) : posts[i].url = url }

RECURSIVE CountEntities(_, _)
CountEntities(entities, t) ==
    IF t > Len(EntityTypeOrder) THEN 0
    ELSE (IF EntityTypeOrder[t] \in DOMAIN entities
          THEN Len(entities[EntityTypeOrder[t]]) ELSE 0) + CountEntities(entities, t + 1)

\* the returned response holds the result of the body an endpoint answered with
ContainsResultOf(final, body, url) ==
    /\ final # NoneValue
    /\ IF "result" \in DOMAIN body
       THEN /\ "result" \in DOMAIN final
            /\ DOMAIN final.result = DOMAIN body.result
            /\ ("annotations" \in DOMAIN body.result
                  /\ body.result.annotations # NoneValue) =>
                 /\ final.result.annotations # NoneValue
                 /\ DOMAIN final.result.annotations.entities
                      = DOMAIN body.result.annotations.entities
                 /\ \A k \in DOMAIN body.result.annotations.entities :
                       \A f \in DOMAIN body.result.annotations.entities[k] :
                          /\ f \in DOMAIN final.result.annotations.entities[k]
                          /\ final.result.annotations.entities[k][f]
                               = body.result.annotations.entities[k][f]
       ELSE /\ "entities" \in DOMAIN final
            /\ IF body.entities = NoneValue THEN final.entities = NoneValue
               ELSE /\ final.entities # NoneValue
                    /\ Cardinality(DOMAIN final.entities) = CountEntities(body.entities, 1)
                    /\ \A k \in DOMAIN final.entities :
                          /\ final.entities[k].pipeline_url = url
                          /\ final.entities[k].type \in DOMAIN body.entities
                          /\ \E i \in 1..Len(body.entities[final.entities[k].type]) :
                                body.entities[final.entities[k].type][i].indices
                                  = final.entities[k].indices

\* the first of two endpoints failed on all its attempts and the second answered 200 with a
\* body that has a result
FirstFailedSecondAnswered ==
    /\ query_pc = "returned"
    /\ Len(cfg.url_endpoints) = 2
    /\ Cardinality(PostsTo(1)) = max_number_of_retries + 1
    /\ \A i \in PostsTo(1) : posts[i].status # 200
    /\ \E i \in PostsTo(2) : posts[i].status = 200
    /\ ("result" \in DOMAIN endpoint_bodies[2] \/ "entities" \in DOMAIN endpoint_bodies[2])

\* C8: with two endpoints, when the first returns non-200 on max_number_of_retries + 1
\* attempts and the second returns 200, query returns a response (it does not raise), the
\* first endpoint contributes the empty mapping and the response holds the second's result
C8_FailoverToSecondEndpoint ==
    FirstFailedSecondAnswered =>
        /\ final_response # NoneValue
        /\ request_responses[1] = <<>>
        /\ ContainsResultOf(final_response, endpoint_bodies[2], cfg.url_endpoints[2])

\* C9: every endpoint receives at most max_number_of_retries + 1 POSTs, none after it has
\* returned 200, and all POSTs to an endpoint precede those to the next one
C9_BoundedOrderedRequests ==
    /\ \A url \in 1..Len(cfg.url_endpoints) :
          Cardinality(PostsTo(url)) <= max_number_of_retries + 1
    /\ \A i \in 1..Len(posts), j \in 1..Len(posts) :
          i < j =>
            /\ posts[i].url <= posts[j].url
            /\ posts[i].url = posts[j].url => posts[i].status # 200

\* query has returned after the first endpoint used up its retries and the second was asked
C9_Witness ==
    /\ query_pc = "returned"
    /\ Cardinality(PostsTo(1)) = max_number_of_retries + 1
    /\ Cardinality(PostsTo(2)) >= 2
    /\ posts[Len(posts)].status = 200

\* C10: when every endpoint fails on all its attempts query returns the empty mapping, and
\* _process_document then ends without emitting a write operation and without changing
\* anything but its own position
C10_AllEndpointsFailNoWrite ==
    [][\A id \in DocIds :
         (task[id] = "write" /\ endpoints_failed[id]) =>
            /\ nlp_response[id] = <<>>
            /\ task'[id] # task[id] =>
                  /\ task'[id] = "done"
                  /\ emitted' = emitted
                  /\ sink' = sink
                  /\ source' = source
                  /\ \A other \in DocIds \ {id} : task'[other] = task[other]
                  /\ UNCHANGED schedVars
      ]_vars

\* the run has ended and a document whose endpoints all failed was left without a write
C10_Witness ==
    /\ sched_pc = "done"
    /\ Len(cfg.url_endpoints) > 1
    /\ \E id \in DocIds :
          /\ endpoints_failed[id]
          /\ nlp_calls[id] >= 1
          /\ task[id] = "done"
          /\ emitted[id] = {}

\* C11: whatever the endpoints do, the value query returns is a mapping, never None
C11_QueryReturnsMapping ==
    query_pc = "returned" => final_response # NoneValue

\* C12: in flat-entities mode, for every entity {"indices": [a, b]} listed under an
\* entity-type key of the 200 body of the endpoint, query returns an entity map with an
\* entity of that type whose source_value is the text passed to query sliced by [a, b]
\* and whose id is a synthetic integer, the key of the entity in the map
C12_FlatEntitiesNormalized ==
    (/\ query_pc = "returned"
     /\ cfg.endpoint_request_mode = "gate-nlp"
     /\ Len(cfg.url_endpoints) = 1
     /\ Len(endpoint_bodies) = 1
     /\ "entities" \in DOMAIN endpoint_bodies[1]
     /\ endpoint_bodies[1].entities # NoneValue)
    => \A t \in DOMAIN endpoint_bodies[1].entities :
          \A i \in 1..Len(endpoint_bodies[1].entities[t]) :
             /\ final_response # NoneValue
             /\ "entities" \in DOMAIN final_response
             /\ \E k \in DOMAIN final_response.entities :
                   LET e == final_response.entities[k]
                       indices == endpoint_bodies[1].entities[t][i].indices
                   IN  /\ e.type = t
                       /\ e.indices = indices
                       /\ e.source_value = Slice(query_text, indices[1], indices[2])
                       /\ e.id \in Nat
                       /\ ToString(e.id) = k

\* the responses of request_responses that have the top-level field k
Having(k) == { i \in 1..Len(request_responses) : k \in DOMAIN request_responses[i] }

\* the responses in which the value of the top-level field k is a mapping
HavingMapping(k) == { i \in Having(k) : IsDict(k, request_responses[i][k]) }

FirstOf(S) == CHOOSE i \in S : \A j \in S : i <= j

LastOf(S) == CHOOSE i \in S : \A j \in S : j <= i

RECURSIVE SumEntities(_)
SumEntities(S) ==
    IF S = {} THEN 0
    ELSE LET i == CHOOSE i \in S : TRUE
         IN  CountEntities(request_responses[i].entities, 1) + SumEntities(S \ {i})

\* C13: when query returns the merge of the collected responses, in either request mode,
\* every top-level field that more than one response has is a field of the result; a
\* scalar has the value of the first response that has the field; a mapping has the
\* sub-fields of every response that has it, a scalar sub-field with the value of the last
\* such response (the formatted entities of a flat-entities response are counted, since
\* their keys are synthetic)
C13_MergeOfResponses ==
    (query_pc = "returned" /\ final_response # NoneValue) =>
        \A k \in { k \in UNION { DOMAIN request_responses[i] : i \in 1..Len(request_responses) }
                       \ {"pipeline_url"} : Cardinality(Having(k)) > 1 } :
            /\ k \in DOMAIN final_response
            /\ IF ~IsDict(k, request_responses[FirstOf(Having(k))][k])
               THEN final_response[k] = request_responses[FirstOf(Having(k))][k]
               ELSE IF k = "entities"
               THEN Cardinality(DOMAIN final_response[k]) = SumEntities(HavingMapping(k))
               ELSE \A f \in UNION { DOMAIN request_responses[i][k] : i \in HavingMapping(k) } :
                       /\ f \in DOMAIN final_response[k]
                       /\ f = "timestamp" =>
                             final_response[k][f]
                               = request_responses[LastOf({ i \in HavingMapping(k) :
                                     f \in DOMAIN request_responses[i][k] })][k][f]

\* C14: in separate and nested-objects mode every record of the sink has the field
\* meta.<source_docid_field>, and every index operation emitted for a document writes that
\* field with the id of the document, whatever source_fields_to_persist lists
C14_RecordsCarryDocId ==
    ~cfg.same_index_ingest =>
        /\ \A r \in sink : Prefixed(FIELD_META_PREFIX, source_docid_field) \in DOMAIN r._source
        /\ \A id \in DocIds : \A op \in emitted[id] :
              op._op_type = "index" =>
                 /\ Prefixed(FIELD_META_PREFIX, source_docid_field) \in DOMAIN op._source
                 /\ op._source[Prefixed(FIELD_META_PREFIX, source_docid_field)]
                      = source[id][source_docid_field]

\* the windows so far whose ids include id
Passes(id) == { i \in 1..Len(windows) : id \in windows[i].doc_ids }

Marked(id) ==
    IF cfg.same_index_ingest
    THEN "annotations" \in DOMAIN source[id] /\ Len(source[id].annotations) > 0
    ELSE \E op \in emitted[id] :
            /\ op._op_type = "index"
            /\ \E r \in sink : r._index = op._index /\ (op._id = NoId \/ r._id = op._id)

\* C16: once a pass has written a record for a document (in same-index mode: once the
\* document has a non-empty annotations field), every later pass finds
\* _document_already_processed true for it, also when the store has made every write
\* searchable, and with skip_doc_check set ends without a call of the annotation service
C16_MarkerOncePersisted ==
    [][\A id \in DocIds :
         (/\ task[id] = "check"
          /\ task'[id] # "check"
          /\ sink_searchable = sink
          /\ Marked(id))
         => /\ _document_already_processed(cfg, source[id], sink_searchable)
            /\ cfg.skip_doc_check => (task'[id] = "done" /\ nlp_calls' = nlp_calls)
      ]_vars

\* C17: when the processing of a document that has no marker ends by an error (query
\* returned no mapping, the preparation of the operations raised, or the store rejected
\* an operation), the document has no marker afterwards: _document_already_processed is
\* false for it on everything the sink holds, so a later pass does not skip it
C17_NoMarkerAfterError ==
    [][\A id \in DocIds :
         (/\ task[id] = "write"
          /\ task'[id] = "done"
          /\ abandoned'[id]
          /\ ~_document_already_processed(cfg, source[id], sink))
         => ~_document_already_processed(cfg, source[id], sink')
      ]_vars

\* C18: an exception in the processing of one document never ends the run: the step in
\* which it is raised changes neither the position of index_range nor the task of any
\* other document, index_range is left by an exception only when the mapping request that
\* precedes the first window is rejected or the resolution of the ids of a window raises,
\* never while a window is processed, and the pool of a window in which a document was
\* abandoned is left only when every id of the window is done
C18_ExceptionNeverEndsRun ==
    [][/\ sched_pc' \in {"start", "loop", "pool", "done", "raised"}
       /\ sched_pc' = "raised" => sched_pc \in {"start", "loop", "raised"}
       /\ \A id \in DocIds :
             (abandoned'[id] /\ task[id] \in {"queued", "write"} /\ task'[id] # task[id]) =>
                /\ task'[id] = "done"
                /\ UNCHANGED schedVars
                /\ \A other \in DocIds \ {id} : task'[other] = task[other]
       /\ (sched_pc = "pool" /\ sched_pc' # "pool" /\ \E id \in doc_ids : abandoned[id])
             => \A id \in doc_ids : task[id] = "done"
      ]_vars

\* the run has ended after a later window, and in its first window one document was
\* abandoned when it was fetched while the other one was annotated and written
C18_Witness ==
    /\ sched_pc = "done"
    /\ Len(windows) >= 2
    /\ \E id \in DocIds : \E other \in DocIds \ {id} :
          /\ Passes(id) = {1}
          /\ 1 \in Passes(other)
          /\ abandoned[id]
          /\ nlp_calls[id] = 0
          /\ nlp_calls[other] >= 1
          /\ emitted[other] # {}

\* a record as a Python dict compares: by its keys and their values, whatever the order
RECURSIVE AsDict(_)
AsDict(d) ==
    [key \in { d[i].key : i \in 1..Len(d) } |->
        LET value == (CHOOSE m \in { d[i] : i \in 1..Len(d) } : m.key = key).value
        IN  IF DOMAIN value = {"int"} THEN value ELSE [dict |-> AsDict(value.dict)]]

DictsOf(list) == { AsDict(list[i]) : i \in 1..Len(list) }

\* C19: when remove_duplicate_records has returned, no two records of the result are the
\* same up to the order of their fields and every record of the argument has its equal in
\* the result; called on its own result, it returns the same set of records again
C19_DedupIdempotentDistinctComplete ==
    dedup_pc = "returned" =>
        /\ \A i, j \in 1..Len(deduplicated) :
              AsDict(deduplicated[i]) = AsDict(deduplicated[j]) => i = j
        /\ DictsOf(list_of_dicts) \subseteq DictsOf(deduplicated)
        /\ dedup_calls # <<>> => DictsOf(deduplicated) = DictsOf(dedup_calls[1].result)

\* the second call has returned; the first one was given the same nested record twice with
\* its fields in two orders, and another record, and returned fewer records than it got
C19_Witness ==
    /\ dedup_pc = "returned"
    /\ dedup_calls # <<>>
    /\ LET X == dedup_calls[1].argument
       IN  /\ \E i, j \in 1..Len(X) :
                 /\ X[i] # X[j]
                 /\ AsDict(X[i]) = AsDict(X[j])
                 /\ \E m \in 1..Len(X[i]) : DOMAIN X[i][m].value = {"dict"}
           /\ Len(dedup_calls[1].result) < Len(X)
           /\ Len(deduplicated) = Len(dedup_calls[1].result)

\* C20: in nested-objects mode with bulk indexing, the write of a document with a usable
\* result sends exactly one operation, with the id doc_<docid>_annotations: an update
\* carrying the entities together with the annotations of the record when the sink holds a
\* record of that id, whatever its fields, and an index operation otherwise
C20_NestedOneOperation ==
    [][\A id \in DocIds :
          LET res        == ResultOf(nlp_response[id])
              ann_doc_id == "doc_" \o source[id][source_docid_field] \o "_annotations"
              existing   == { r \in sink : r._id = ann_doc_id }
              ops        == WrittenOps(cfg, res.result, source[id], id, sink,
                                       sink_searchable)
          IN  (/\ task[id] = "write"
               /\ task'[id] = "done"
               /\ cfg.use_nested_objects
               /\ ~cfg.same_index_ingest
               /\ cfg.use_bulk_indexing
               /\ res.usable)
              => /\ Len(ops) = 1
                 /\ ops[1]._id = ann_doc_id
                 /\ ops[1]._op_type = IF existing = {} THEN "index" ELSE "update"
                 /\ existing # {} =>
                       \A r \in existing :
                          { ops[1].annotations[i] : i \in 1..Len(ops[1].annotations) }
                             = { res.result[k] : k \in DOMAIN res.result }
                               \cup (IF Has(r._source, "annotations")
                                     THEN { r._source.annotations[i] :
                                              i \in 1..Len(r._source.annotations) }
                                     ELSE {})
      ]_vars

\* C21: in same-index mode the write of a document with a usable result sends exactly one
\* operation, an update of the source index under the id of the source document; when the
\* store accepts it the source document carries the annotations of the operation
\* afterwards, and the sink index is left as it was
C21_SameIndexOneUpdateOnSource ==
    [][\A id \in DocIds :
          LET res == ResultOf(nlp_response[id])
              ops == WrittenOps(cfg, res.result, source[id], id, sink, sink_searchable)
          IN  (/\ task[id] = "write"
               /\ task'[id] = "done"
               /\ cfg.same_index_ingest
               /\ res.usable
               /\ faults' = faults)
              => /\ Len(ops) = 1
                 /\ ops[1]._op_type = "update"
                 /\ ops[1]._index = get_index_name(source_index_name, "", FALSE)[1]
                 /\ ops[1]._id = id
                 /\ Has(source'[id], "annotations")
                 /\ source'[id].annotations = ops[1].annotations
                 /\ sink' = sink
      ]_vars

\* the annotations array an operation of the append modes carries
ArrayOf(op) == IF op._op_type = "update" THEN op.annotations ELSE op._source.annotations

\* C22: no annotations array sent by same-index mode or by nested-objects mode holds the
\* same record twice
C22_EmittedArraysDeduplicated ==
    (cfg.same_index_ingest \/ cfg.use_nested_objects) =>
        \A id \in DocIds : \A op \in emitted[id] :
            \A i, j \in 1..Len(ArrayOf(op)) : ArrayOf(op)[i] = ArrayOf(op)[j] => i = j

\* the record r holds the fields of the entity under the prefix nlp
HoldsEntity(r, entity) ==
    \A f \in DOMAIN entity :
        /\ Has(r._source, Prefixed(FIELD_ANN_PREFIX, f))
        /\ r._source[Prefixed(FIELD_ANN_PREFIX, f)] = entity[f]

\* C23: in separate mode with a split field, after the write of a document with a usable
\* result that the store accepted, every entity of the result has its record in the sink:
\* in the index named by the value of its split field when it has one, in the base index
\* otherwise
C23_SplitFieldRouting ==
    [][\A id \in DocIds :
          LET res == ResultOf(nlp_response[id])
          IN  (/\ task[id] = "write"
               /\ task'[id] = "done"
               /\ ~cfg.same_index_ingest
               /\ ~cfg.use_nested_objects
               /\ Len(cfg.split_index_by_field) > 0
               /\ res.usable
               /\ faults' = faults)
              => \A k \in DOMAIN res.result :
                    LET entity == res.result[k]
                        suffix == IF Has(entity, cfg.split_index_by_field)
                                  THEN entity[cfg.split_index_by_field] ELSE ""
                    IN  \E r \in sink' :
                           /\ r._index = get_index_name(sink_index_name, suffix, FALSE)[1]
                           /\ HoldsEntity(r, entity)
      ]_vars

\* C24: in separate mode without bulk indexing, the write of a document with a usable
\* result of n entities makes n index calls on the sink, one for every entity, each with a
\* record holding the fields of the entity under nlp and the persisted fields of the
\* document under meta
C24_NonBulkOneCallPerEntity ==
    [][\A id \in DocIds :
          LET res == ResultOf(nlp_response[id])
              ops == WrittenOps(cfg, res.result, source[id], id, sink, sink_searchable)
          IN  (/\ task[id] = "write"
               /\ task'[id] = "done"
               /\ ~cfg.same_index_ingest
               /\ ~cfg.use_nested_objects
               /\ ~cfg.use_bulk_indexing
               /\ res.usable)
              => /\ Len(ops) = Cardinality(DOMAIN res.result)
                 /\ \A k \in DOMAIN res.result :
                       \E i \in 1..Len(ops) :
                          /\ ops[i]._op_type = "index"
                          /\ HoldsEntity(ops[i], res.result[k])
                          /\ \A f \in DOMAIN MetaFields(cfg, source[id]) :
                                /\ Has(ops[i]._source, f)
                                /\ ops[i]._source[f] = MetaFields(cfg, source[id])[f]
      ]_vars

\* C25: when index_docs_bulk_gen has returned, no exception is left for its caller; if the
\* generator did not raise, every operation of the stream was sent to the store, also
\* after an operation the store rejected; and when operations were rejected, the count
\* logged is their number
C25_BulkNeverAbortsOnFailure ==
    bulk_pc = "returned" =>
        /\ bulk_exception = NoException
        /\ ~actions_generator.raises => submitted = actions_generator.length
        /\ actions_generator.rejected # {} /\ ~actions_generator.raises =>
              \E i \in 1..Len(bulk_log) :
                  bulk_log[i].count = Cardinality(actions_generator.rejected)

\* C26: in same-index mode without a schema profile, the step of index_range that precedes
\* the first window makes a mapping request only when the mapping of the source index
\* does not declare annotations
C26_MappingUpdateOnlyIfAbsent ==
    [][(/\ sched_pc = "start"
        /\ sched_pc' # "start"
        /\ cfg.same_index_ingest
        /\ cfg.es_nested_object_schema_mapping = ""
        /\ mapping_requests' # mapping_requests)
       => mappings[source_index_name].annotations = NotDeclared
      ]_vars

\* the index a configured profile is applied to
ProfileTarget == IF cfg.same_index_ingest THEN source_index_name ELSE sink_index_name

StageRank(stage) ==
    CASE stage = "queued" -> 1
      [] stage = "check"  -> 2
      [] stage = "query"  -> 3
      [] stage = "write"  -> 4
      [] stage = "done"   -> 5
      [] OTHER            -> 0

\* a document moves from a stage to the next one or to the end; the service is called only
\* in the query stage and the sink changes only in the write stage
StagesInOrder ==
    [][\A id \in DocIds :
        /\ task'[id] # task[id] =>
              \/ task[id] \in {"idle", "done"} /\ task'[id] \in {"idle", "queued"}
              \/ task[id] \notin {"idle", "done"} /\ task'[id] = "done"
              \/ /\ task[id] \notin {"idle", "done"}
                 /\ StageRank(task'[id]) = StageRank(task[id]) + 1
        /\ nlp_calls'[id] # nlp_calls[id] => task[id] = "query" /\ task'[id] = "write"
        /\ emitted'[id] # emitted[id] =>
              task[id] = "write" /\ nlp_response[id] # NoResponse
        /\ sink' # sink => \E w \in DocIds : task[w] = "write" /\ task'[w] = "done"
        ]_vars

\* C28: a document moves from a stage to the next one or to the end, and a later window
\* submits it only when its pass has ended; the annotation service is called only in the
\* query stage, which follows the validation and the duplicate check; operations are sent
\* and the sink changes only in the write stage, with the response at hand; and every
\* document that was submitted reaches the end
C28_StagesInOrderAndDone ==
    /\ StagesInOrder
    /\ \A id \in DocIds : (task[id] = "queued") ~> (task[id] = "done")

\* a document went through every stage of a pass that wrote its record and is at the end,
\* in a run that has ended
C28_Witness ==
    /\ sched_pc = "done"
    /\ \E id \in DocIds :
          /\ task[id] = "done"
          /\ nlp_calls[id] >= 1
          /\ emitted[id] # {}
    /\ sink # {}

\* the response holds a result with annotations.entities that are not null, or top-level
\* entities that are not null
UsablePayload(response) ==
    /\ response # NoneValue
    /\ \/ /\ Has(response, "result")
          /\ Has(response.result, "annotations")
          /\ response.result.annotations # NoneValue
          /\ Has(response.result.annotations, "entities")
          /\ response.result.annotations.entities # NoneValue
       \/ /\ Has(response, "entities")
          /\ response.entities # NoneValue

\* C29: the step that ends the pass of a document whose response has no usable payload
\* sends no operation, changes neither store, and ends the call without ending the run
C29_NoPayloadNoWrite ==
    [][\A id \in DocIds :
        (task[id] = "write" /\ task'[id] # "write" /\ ~UsablePayload(nlp_response[id])) =>
            /\ emitted'[id] = emitted[id]
            /\ sink' = sink
            /\ source' = source
            /\ auto_id' = auto_id
            /\ task'[id] = "done"
            /\ sched_pc' = sched_pc
      ]_vars

\* the pass of a document ended after a response that held a result without annotations,
\* with nothing sent for the document
C29_Witness ==
    \E id \in DocIds :
        /\ task[id] = "done"
        /\ nlp_calls[id] >= 1
        /\ emitted[id] = {}
        /\ \E response \in pass_results[id] :
              /\ response # NoneValue
              /\ Has(response, "result")
              /\ ~UsablePayload(response)

\* C30: the write of a document whose response holds an entity map with no entity sends
\* no operation and leaves the sink as it was, so that no record marks the document as
\* processed
C30_ZeroEntitiesNoWrite ==
    [][\A id \in DocIds :
          LET res == ResultOf(nlp_response[id])
          IN  (/\ task[id] = "write"
               /\ task'[id] = "done"
               /\ UsablePayload(nlp_response[id])
               /\ res.usable
               /\ DOMAIN res.result = {})
              => /\ emitted'[id] = emitted[id]
                 /\ sink' = sink
      ]_vars

\* the windows of a batch whose start equals its end: none before the first is resolved,
\* then exactly the window [batch_start, batch_end], after which index_range reads no more
OneWindowOfEqualDates ==
    /\ Len(windows) <= 1
    /\ Len(windows) = 1 =>
          /\ windows[1].start = batch_date_start
          /\ windows[1].end = batch_date_end
          /\ ~continue_read
    /\ sched_pc = "done" => Len(windows) = 1

\* C31 as stated: when batch_start equals batch_end, index_range runs exactly one window,
\* [batch_start, batch_end], for every interval
C31_EqualDatesOneWindowEveryInterval ==
    batch_date_start = batch_date_end => OneWindowOfEqualDates

\* C31: when batch_start equals batch_end, index_range runs exactly one window,
\* [batch_start, batch_end], for every interval of zero days or more
C31_EqualDatesOneWindow ==
    (batch_date_start = batch_date_end /\ cfg.interval >= 0) => OneWindowOfEqualDates

\* index_range has returned after the one window of a batch of one day, read with an
\* interval of zero days, in which a document was processed
C31_Witness ==
    /\ batch_date_start = batch_date_end
    /\ cfg.interval = 0
    /\ sched_pc = "done"
    /\ Len(windows) = 1
    /\ \E id \in windows[1].doc_ids : task[id] = "done" /\ nlp_calls[id] >= 1

\* C32: a window whose scan returned no id is left without waiting and without an
\* exception, towards the next window or the end of the batch, and the next window starts
\* where it ended; an error of the scan leaves index_range, after which no window is
\* resolved and no document processed
C32_EmptyWindowGoesOnScanErrorEnds ==
    [][/\ (sched_pc = "pool" /\ doc_ids = {}) =>
             /\ PoolWaits(doc_ids, task)
             /\ sched_pc' \in {"pool", IF continue_read THEN "loop" ELSE "done"}
       /\ (Len(windows) >= 1 /\ windows[Len(windows)].doc_ids = {}
             /\ Len(windows') = Len(windows) + 1) =>
             windows'[Len(windows')].start = windows[Len(windows)].end
       /\ (sched_pc = "loop" /\ faults' # faults) => sched_pc' = "raised"
       /\ sched_pc = "raised" =>
             /\ sched_pc' = "raised"
             /\ windows' = windows
             /\ task' = task
             /\ nlp_calls' = nlp_calls
             /\ sink' = sink
      ]_vars

\* index_range was left by the error of the scan of a third window, after a first window
\* without ids and a second one whose document was processed
C32_Witness ==
    /\ sched_pc = "raised"
    /\ faults >= 1
    /\ Len(windows) = 2
    /\ windows[1].doc_ids = {}
    /\ windows[2].doc_ids # {}
    /\ \A id \in windows[2].doc_ids : task[id] = "done" /\ nlp_calls[id] >= 1
    /\ windows[2].end # batch_date_end

\* the ids of the source documents that the sink marks as processed
SinkProcessedIds(stored) ==
    { id \in DOMAIN source : _document_already_processed(cfg, source[id], stored) }

\* C33: the ids handed to the pool for a window are the ids of the source in the window
\* minus the ids the sink holds as processed when the window is resolved.  The program has
\* one resolution of ids, used under every configuration
C33_FannedOutIdsAreSourceMinusProcessed ==
    [][Len(windows') = Len(windows) + 1 =>
          LET w == windows'[Len(windows')]
              sourceIds == get_doc_ids_by_range_scan(source, source_batch_date_field,
                                                     w.start, w.end)
          IN  /\ w.doc_ids = sourceIds \ SinkProcessedIds(sink)
              /\ doc_ids' = w.doc_ids
      ]_vars

\* the entities of one collected response in the order the loops of lines 114-115 take
\* them: type by type, and within a type in the order of the list
RECURSIVE EntitiesInOrder(_, _)
EntitiesInOrder(response, t) ==
    IF t > Len(EntityTypeOrder) THEN <<>>
    ELSE (IF Has(response.entities, EntityTypeOrder[t])
          THEN [j \in 1..Len(response.entities[EntityTypeOrder[t]]) |->
                  [type |-> EntityTypeOrder[t],
                   indices |-> response.entities[EntityTypeOrder[t]][j].indices,
                   pipeline_url |-> response.pipeline_url]]
          ELSE <<>>)
         \o EntitiesInOrder(response, t + 1)

\* the entities of the collected responses from the i-th on
RECURSIVE EntitiesFrom(_, _)
EntitiesFrom(responses, i) ==
    IF i > Len(responses) THEN <<>>
    ELSE (IF Has(responses[i], "entities") /\ responses[i].entities # NoneValue
          THEN EntitiesInOrder(responses[i], 1)
          ELSE <<>>)
         \o EntitiesFrom(responses, i + 1)

\* C34: in flat-entities mode the entity map of the value query returns has the keys
\* "0" .. "n-1" for the n entities of all responses, the entity under the key k has the
\* id k, and the entity with the id k is the k-th entity in the order of the responses,
\* of the types within a response and of the entities within a type, so that every entity
\* of every response is in the map under an id of its own
C34_FlatIdsIncrementAcrossResponses ==
    (/\ query_pc = "returned"
     /\ cfg.endpoint_request_mode = "gate-nlp"
     /\ final_response # NoneValue)
    => LET expected == EntitiesFrom(request_responses, 1)
           n == Len(expected)
           canonical == IF Has(final_response, "entities")
                           /\ final_response.entities # NoneValue
                        THEN final_response.entities
                        ELSE <<>>
       IN  /\ DOMAIN canonical = { ToString(k) : k \in 0..(n - 1) }
           /\ \A k \in 0..(n - 1) :
                 LET e == canonical[ToString(k)]
                 IN  /\ e.id = k
                     /\ e.type = expected[k + 1].type
                     /\ e.indices = expected[k + 1].indices
                     /\ e.pipeline_url = expected[k + 1].pipeline_url

\* query has returned the entities of two endpoints, the second of which answered with
\* entities of two types
C34_Witness ==
    /\ query_pc = "returned"
    /\ cfg.endpoint_request_mode = "gate-nlp"
    /\ final_response # NoneValue
    /\ Len(request_responses) = 2
    /\ Has(final_response, "entities")
    /\ final_response.entities # NoneValue
    /\ Cardinality(DOMAIN final_response.entities) = 3
    /\ final_response.entities["0"].pipeline_url # final_response.entities["2"].pipeline_url
    /\ final_response.entities["1"].type # final_response.entities["2"].type

\* the records of a list, as a set
Members(list) == { list[i] : i \in 1..Len(list) }

\* the annotations a record or a document holds, none when it has no such field
StoredAnnotations(fields) ==
    IF Has(fields, "annotations") THEN Members(fields.annotations) ELSE {}

\* C35: every update operation that the write of a document sends in same-index or
\* nested-objects mode carries the annotations stored for the document before the write
\* and every entity of the result, and after the write the record holds at least the
\* annotations it held before
C35_AppendNeverRemoves ==
    [][\A id \in DocIds :
          LET res == ResultOf(nlp_response[id])
              ops == WrittenOps(cfg, res.result, source[id], id, sink, sink_searchable)
          IN  (/\ task[id] = "write"
               /\ task'[id] = "done"
               /\ cfg.same_index_ingest \/ cfg.use_nested_objects
               /\ res.usable)
              => \A i \in 1..Len(ops) :
                    ops[i]._op_type = "update" =>
                       LET before == IF cfg.same_index_ingest
                                     THEN StoredAnnotations(source[id])
                                     ELSE UNION { StoredAnnotations(r._source) :
                                                    r \in { r \in sink :
                                                              /\ r._index = ops[i]._index
                                                              /\ r._id = ops[i]._id } }
                       IN  /\ before \subseteq Members(ops[i].annotations)
                           /\ { res.result[k] : k \in DOMAIN res.result }
                                 \subseteq Members(ops[i].annotations)
                           /\ IF cfg.same_index_ingest
                              THEN before \subseteq StoredAnnotations(source'[id])
                              ELSE \A r \in sink' :
                                      (r._index = ops[i]._index /\ r._id = ops[i]._id)
                                         => before \subseteq StoredAnnotations(r._source)
      ]_vars

\* in same-index mode a flat-entities result was added to the annotation the document
\* held: the update sent and the document in the store hold both
C35_Witness ==
    /\ cfg.same_index_ingest
    /\ cfg.same_hosts
    /\ cfg.endpoint_request_mode = "gate-nlp"
    /\ \E id \in DocIds :
          /\ task[id] = "done"
          /\ EntityDisease \in StoredAnnotations(source[id])
          /\ \E e \in StoredAnnotations(source[id]) : e # EntityDisease
          /\ \E op \in emitted[id] :
                /\ op._op_type = "update"
                /\ Members(op.annotations) = StoredAnnotations(source[id])

\* C36: with skip_doc_check set, no document is sent to the annotation service more than
\* once in a run of index_range, wherever its date lies in the batch and whenever the store
\* makes the records written for it searchable
C36_AtMostOneServiceCallPerDocument ==
    cfg.skip_doc_check => \A id \in DocIds : nlp_calls[id] <= 1

\* what the processing of the document id does on given stores: whether it stops before the
\* query, and for every entity map the service may return the operations it prepares and
\* whether the preparation raises
Planned(id, stored, searchable) ==
    [no_content |-> NoContent(source[id]),
     skip       |-> SkipDocument(cfg, source[id], searchable),
     prepared   |-> [entities \in EntityMaps |->
                       IF cfg.use_bulk_indexing
                       THEN _prepare_annotations(cfg, entities, source[id], id, stored,
                                                 searchable)
                       ELSE _index_annotations(cfg, entities, source[id], id)]]

\* the records of a store that an operation emitted for the document id addresses
RecordsOf(id, store) ==
    { r \in store : \E op \in emitted[id] : r._index = op._index /\ r._id = op._id }

\* what the processing of a document of the window that is not done yet does on the
\* stores is what it does on the stores without the records of another document of the
\* window that is done and for which operations were emitted
IndependentOfOthers ==
    sched_pc = "pool" =>
        \A id \in doc_ids : \A other \in doc_ids \ {id} :
            (task[id] # "done" /\ task[other] = "done" /\ emitted[other] # {})
              => Planned(id, sink, sink_searchable)
                   = Planned(id, sink \ RecordsOf(other, sink),
                             sink_searchable \ RecordsOf(other, sink_searchable))

\* a step queues exactly the ids of the window it resolves and no step queues an id
\* otherwise, an id leaves the queue by the start of its processing, the window is left
\* only when every id of it is done, and a step of one document leaves the state of
\* another document of the window alone
HandedOverOnce ==
    /\ \A id \in DocIds :
         /\ Len(windows') = Len(windows) + 1
              => (task'[id] = "queued" <=> id \in windows'[Len(windows')].doc_ids)
         /\ (task'[id] = "queued" /\ task[id] # "queued")
              => Len(windows') = Len(windows) + 1
         /\ (task[id] = "queued" /\ task'[id] # "queued")
              => (sched_pc = "pool" /\ id \in doc_ids /\ task'[id] \in {"check", "done"})
    /\ (sched_pc = "pool" /\ sched_pc' # "pool")
         => \A id \in doc_ids : task[id] = "done"
    /\ \A id \in doc_ids : \A other \in doc_ids \ {id} :
         (task'[other] # task[other] /\ sched_pc = "pool")
              => /\ task'[id] = task[id]
                 /\ source'[id] = source[id]
                 /\ emitted'[id] = emitted[id]
                 /\ nlp_response'[id] = nlp_response[id]

\* C37: every id a window's id resolution returns is handed to _process_document exactly
\* once in that window, and the outcome of one document's processing does not change
\* the operations emitted for another document of the window
C37_EachIdOnceAndIndependent == []IndependentOfOthers /\ [][HandedOverOnce]_vars

\* both documents of one window are done and operations were emitted for each of them,
\* in nested-objects mode
C37_Witness ==
    /\ cfg.use_nested_objects
    /\ sched_pc = "done"
    /\ Len(windows) = 1
    /\ windows[1].doc_ids = DocIds
    /\ \A id \in DocIds : task[id] = "done" /\ emitted[id] # {}

\* at most cfg.threads documents are between the start and the end of _process_document
AtMostThreadsRunning == Cardinality(Running) <= cfg.threads

\* C38: at any time at most threads documents are being processed concurrently, and one
\* document-processing pool of that size is created once and serves every window of the
\* batch
C38_OnePoolForAllWindows ==
    /\ AtMostThreadsRunning
    /\ Len(executors) <= 1
    /\ \A i \in 1..Len(executors) : executors[i] = cfg.threads

\* C38 as the code has it: at any time at most threads documents are being processed
\* concurrently, and one document-processing pool of that size is created for every
\* window of the batch
C38_OnePoolPerWindow ==
    /\ AtMostThreadsRunning
    /\ Len(executors) = Len(windows)
    /\ \A i \in 1..Len(executors) : executors[i] = cfg.threads

\* the second window of a batch is being processed by as many workers as the pool has,
\* more than one
C38_Witness ==
    /\ Len(windows) >= 2
    /\ cfg.threads > 1
    /\ Cardinality(Running) = cfg.threads

\* the positions of the collected responses that have a result; query returns the
\* response of the last of them
WithResult == { i \in 1..Len(request_responses) : Has(request_responses[i], "result") }

\* C39: when query returns the response of a structured endpoint that has a sibling
\* medcat_info object, the returned value has the entities of the response under their
\* keys, every one of them with its own fields, all fields of medcat_info and a timestamp
\* equal to result.timestamp; when the response has no medcat_info, it is returned as it
\* was received, its entities unchanged
C39_MedcatInfoMergedIntoEntities ==
    (/\ query_pc = "returned"
     /\ cfg.endpoint_request_mode = ""
     /\ final_response # NoneValue
     /\ WithResult # {})
    => LET response == request_responses[LastOf(WithResult)]
       IN  IF Has(response, "medcat_info")
           THEN LET received == response.result.annotations.entities
                    returned == final_response.result.annotations.entities
                IN  /\ DOMAIN returned = DOMAIN received
                    /\ \A k \in DOMAIN received :
                          /\ \A f \in DOMAIN response.medcat_info \ {"timestamp"} :
                                Has(returned[k], f)
                                  /\ returned[k][f] = response.medcat_info[f]
                          /\ Has(returned[k], "timestamp")
                          /\ returned[k].timestamp = response.result.timestamp
                          /\ \A f \in DOMAIN received[k] :
                                f \notin DOMAIN response.medcat_info \cup {"timestamp"}
                                  => Has(returned[k], f) /\ returned[k][f] = received[k][f]
           ELSE final_response = response

\* query has returned the response of the second of two endpoints, which has medcat_info
\* and two entities, both carrying the fields of medcat_info and the timestamp
C39_Witness ==
    /\ query_pc = "returned"
    /\ cfg.endpoint_request_mode = ""
    /\ final_response # NoneValue
    /\ Len(request_responses) = 2
    /\ Has(request_responses[2], "medcat_info")
    /\ ~Has(request_responses[1], "medcat_info")
    /\ Cardinality(DOMAIN final_response.result.annotations.entities) = 2
    /\ \A k \in DOMAIN final_response.result.annotations.entities :
          /\ final_response.result.annotations.entities[k].version = "1.0"
          /\ final_response.result.annotations.entities[k].timestamp = "ts"

====
